---------------------------- MODULE Spec2Model ----------------------------
(***************************************************************************)
(* A model of cc-chat-kit: the server's session sequencer, replay buffer,  *)
(* subscription broadcaster and host-process table (websocket.ts,          *)
(* index.ts), the stream event classifier (claude.ts) and the client's     *)
(* reducer and connection state machine (useClaude.ts).                    *)
(*                                                                         *)
(* Text is a sequence of one-character strings, so that concatenation and  *)
(* String.prototype.trim() are computed, not assumed.  Maps of the source  *)
(* (Map<string, T>) are functions whose DOMAIN is the set of keys present. *)
(* Time is counted in minutes, the period of the cleanup interval.         *)
(***************************************************************************)
EXTENDS Integers, Sequences, FiniteSets, TLC

\* ---------------------------------------------------------------- bounds
MaxEvents == 3      \* chat events appended, over all sessions (SpecWs)
MaxTurnEvents == 2  \* chat events appended, over all sessions (Spec)
MaxChats == 4       \* send and cancel requests handled by the server
MaxResets == 1      \* direct calls of resetChatState
MaxSys == 1         \* subscribe and catch_up requests handled by the server
MaxTicks == 1       \* times the clock advances (by BUFFER_TTL minutes)
MaxProcs == 3       \* host processes spawned
MaxRecords == 3     \* records fed to one classifier instance
MaxTrimEvents == 102 \* chat events appended to one session (SpecTrim)
TrimChoices == 3    \* of these, the first that may be any payload (SpecTrim)
MaxFold == 5        \* chat events delivered to the reducer (SpecReducer)
MaxSends == 1       \* calls of send() (SpecReducer)
MaxSockets == 5     \* WebSockets the client creates
MaxTimers == 3      \* reconnect timers the client sets
MaxCalls == 2       \* calls of connect() and disconnect() by the caller
maxReconnectAttempts == 2  \* the option of that name
MaxLinks == 2       \* WebSockets the client creates (SpecE2E)
MaxE2EEvents == 2   \* chat events appended (SpecE2E)
MaxPending == 2     \* state updates React holds queued (SpecSession)
MaxFanSeq == 5      \* system notices sent (SpecFan)
MaxReads == 4       \* chunks read from the host process (SpecParser)
MaxStateEvents == 4 \* chat events appended to the session (SpecState)
MaxStream == 5      \* characters the host process writes (SpecChunks)
MaxTurns == 2       \* calls of send() on one connection (SpecTurns)

\* ------------------------------------------------------ program constants
MAX_BUFFER_SIZE == 100
BUFFER_TTL == 5

\* ------------------------------------------------------------ value sets
Conns == {"w1", "w2"}
SessionIds == {"s1", "s2"}
ProvIds == {"new-1"}
ProcIds == 1..MaxProcs
ToolIds == {"t1", "t2"}
None == "none"
AllIds == SessionIds \cup ProvIds

VARIABLES
    \* websocket.ts
    connState,        \* per server-side socket: "new" | "open" | "closed"
    wsSession,        \* ws.data.sessionId of each socket (None: undefined)
    sessionBuffers,   \* Map sessionId -> WebSocketMessage[]
    sessionSeqs,      \* Map sessionId -> number
    chatStates,       \* Map sessionId -> ChatState
    globalSeq,        \* global sequence counter
    sent,             \* per socket, the messages ws.send() delivered in the last step
    now,              \* Date.now(), in minutes
    \* index.ts
    activeProcesses,  \* Map sessionId -> ActiveProcess (a process id)
    procs,            \* the ActiveProcess objects and where their handleChat stands
    \* history (not program state)
    appended,         \* per session id, every chat message broadcastChat built
    sinceReset,       \* per session id, the payloads appended since the last reset
    usedIds,          \* session ids generated or revealed so far
    nOps,             \* send and cancel requests handled so far
    nSys,             \* subscribe and catch_up requests handled so far
    \* claude.ts: one parseClaudeStream call
    activeTools,      \* Map toolId -> ActiveTool (the tool's name)
    emitted,          \* the callbacks invoked so far, in order
    nRecords,         \* records processed, or chunks read, so far
    streamBuffer,     \* buffer: the text read and not yet split off as a line
    unread,           \* the text the host process wrote, not yet read
    isAborted,        \* what isAborted() returns
    parserState,      \* "reading", or how parseClaudeStream returned
    lines,            \* history: the lines handed to JSON.parse, in order
    \* useClaude.ts: the reducer
    client,           \* the hook's state and refs, and React's pending updates
    replica,          \* a second instance of the hook, fed by replay only
    replayed,         \* whether the replica has received its snapshot
    \* useClaude.ts: the connection
    status,           \* ConnectionStatus
    wsRef,            \* wsRef.current: a socket, or NoSocket
    reconnectAttempts,    \* reconnectAttemptsRef.current
    reconnectTimeoutRef,  \* reconnectTimeoutRef.current: a timer, or NoTimer
    sockets,          \* the WebSockets created: readyState, and the sessionId
                      \* the connect() that created them had captured
    timers,           \* the timers set: state, and the captured sessionId
    up,               \* per socket, messages sent by the client, not yet handled
    down,             \* per socket, messages sent by the server, not yet handled
    \* history (not program state)
    folded,           \* sequence numbers of the chat events the reducer folded
    exhausted,        \* a close found the attempts used up, and the caller
                      \* has not called connect() since
    callerDisconnected,  \* the caller has called disconnect(), and has not
                      \* called connect() since
    nCalls            \* calls of connect() and disconnect() so far

serverVars == <<connState, wsSession, sessionBuffers, sessionSeqs, chatStates,
                globalSeq, sent, now, activeProcesses, procs, appended,
                sinceReset, usedIds, nOps, nSys>>

classifierVars == <<activeTools, emitted, nRecords, streamBuffer, unread,
                    isAborted, parserState, lines>>

reducerVars == <<client, replica, replayed>>

connVars == <<status, wsRef, reconnectAttempts, reconnectTimeoutRef, sockets,
              timers, up, down, folded, exhausted, callerDisconnected, nCalls>>

nonServerVars == <<classifierVars, reducerVars, connVars>>

vars == <<serverVars, classifierVars, reducerVars, connVars>>

\* --------------------------------------------------------------- helpers
EmptyMap == [k \in {} |-> 0]
Put(f, k, v) == [x \in DOMAIN f \cup {k} |-> IF x = k THEN v ELSE f[x]]
Del(f, k) == [x \in DOMAIN f \ {k} |-> f[x]]
Has(f, k) == k \in DOMAIN f
GetOr(f, k, d) == IF k \in DOMAIN f THEN f[k] ELSE d

Last(s) == s[Len(s)]
SeqNums(s) == [i \in 1..Len(s) |-> s[i].seq]

\* ------------------------------------------------------- protocol values
NoTool == [id |-> None]
NoTodos == "none"
NoText == << >>
\* an absent lastSeq in a catch_up payload
NoSeq == -1

\* ChatPayload (types: part_000)
Payload(a, c, t, td, e) ==
    [action |-> a, content |-> c, tool |-> t, todos |-> td, error |-> e]
Token(c) == Payload("token", c, NoTool, NoTodos, None)
ToolStart(t) == Payload("tool_start", NoText, t, NoTodos, None)
ToolEnd(t) == Payload("tool_end", NoText, t, NoTodos, None)
TodoUpdate(td) == Payload("todo_update", NoText, NoTool, td, None)
Thinking == Payload("thinking", NoText, NoTool, NoTodos, None)
Complete == Payload("complete", NoText, NoTool, NoTodos, None)
ErrorP(e) == Payload("error", NoText, NoTool, NoTodos, e)

\* ToolUseData as the classifier emits it on start and on end
NoSummary == "none"
StartTool(id) ==
    [id |-> id, name |-> "Read", friendly |-> "Reading file", summary |-> NoSummary]
EndTool(id, name) ==
    [id |-> id, name |-> name, friendly |-> None, summary |-> "3 lines"]
\* { ...t, ...payload.tool } / Object.assign(tool, payload.tool): the fields the
\* tool_end payload carries replace the old ones, the others are kept
MergeTool(old, new) ==
    [id |-> new.id, name |-> new.name,
     friendly |-> IF new.friendly # None THEN new.friendly ELSE old.friendly,
     summary |-> IF new.summary # NoSummary THEN new.summary ELSE old.summary]

NoState == [status |-> "absent"]
IdleState == [status |-> "idle", accumulatedContent |-> NoText, tools |-> << >>,
              todos |-> NoTodos, errorMessage |-> None]
FreshState == [status |-> "streaming", accumulatedContent |-> NoText,
               tools |-> << >>, todos |-> NoTodos, errorMessage |-> None]

\* ------------------------------------------------------------ websocket.ts
\* WebSocketMessage
ChatMsg(sid, seq, t, payload) ==
    [type |-> "chat", seq |-> seq, timestamp |-> t, sessionId |-> sid,
     payload |-> payload]
SnapshotMsg(sid, gseq, t, hasEvents, events, state, cur) ==
    [type |-> "system", seq |-> gseq, timestamp |-> t, sessionId |-> sid,
     payload |-> [action |-> "snapshot", sessionId |-> sid,
                  hasEvents |-> hasEvents, events |-> events,
                  chatState |-> state, currentSeq |-> cur]]
ConnectedMsg(gseq, t) ==
    [type |-> "system", seq |-> gseq, timestamp |-> t, sessionId |-> None,
     payload |-> [action |-> "connected", currentSeq |-> gseq]]

\* The server's state as one value, so that the operations of websocket.ts
\* compose in the order the handlers call them.
NoneSent == [w \in Conns |-> << >>]
SV == [conn |-> connState, ws |-> wsSession, buffers |-> sessionBuffers,
       seqs |-> sessionSeqs, states |-> chatStates, gseq |-> globalSeq,
       sent |-> NoneSent, appended |-> appended, folded |-> sinceReset]

SetSV(s) ==
    /\ connState' = s.conn
    /\ wsSession' = s.ws
    /\ sessionBuffers' = s.buffers
    /\ sessionSeqs' = s.seqs
    /\ chatStates' = s.states
    /\ globalSeq' = s.gseq
    /\ sent' = s.sent
    /\ appended' = s.appended
    /\ sinceReset' = s.folded

\* ws.send(): a message to a socket that is no longer open is dropped
wsSend(s, w, msg) ==
    IF s.conn[w] = "open"
    THEN [s EXCEPT !.sent = [@ EXCEPT ![w] = Append(@, msg)]]
    ELSE s

\* getSessionSeq: the counter, created at 0 when the session has none
getSessionSeq(s, sid) == GetOr(s.seqs, sid, 0)
withSessionSeq(s, sid) ==
    IF Has(s.seqs, sid) THEN s ELSE [s EXCEPT !.seqs = Put(@, sid, 0)]

skipSessionSeq(s, sid) == getSessionSeq(s, sid) + 2
\* nextSessionSeq: increment and return
nextSessionSeq(s, sid) == getSessionSeq(s, sid) + 1

trimAll(buffer) == buffer
\* bufferEvent's trim: buffer.splice(0, buffer.length - MAX_BUFFER_SIZE)
trimBuffer(buffer) ==
    IF Len(buffer) > MAX_BUFFER_SIZE
    THEN SubSeq(buffer, Len(buffer) - MAX_BUFFER_SIZE + 1, Len(buffer))
    ELSE buffer

\* bufferEvent
bufferEvent(buffers, sid, msg) ==
    Put(buffers, sid, trimBuffer(Append(GetOr(buffers, sid, << >>), msg)))

\* state.tools after a tool_end: the first tool with that id is merged
RECURSIVE mergeFirst(_, _)
mergeFirst(tools, tool) ==
    IF tools = << >> THEN << >>
    ELSE IF Head(tools).id = tool.id
         THEN <<MergeTool(Head(tools), tool)>> \o Tail(tools)
         ELSE <<Head(tools)>> \o mergeFirst(Tail(tools), tool)

\* updateChatState's switch, on a state that exists
foldPayload(st, payload) ==
    CASE payload.action = "token" ->
           [st EXCEPT !.status = "streaming",
                      !.accumulatedContent = @ \o payload.content]
      [] payload.action = "tool_start" ->
           [st EXCEPT !.status = "streaming",
                      !.tools = IF payload.tool # NoTool
                                THEN Append(@, payload.tool) ELSE @]
      [] payload.action = "tool_end" ->
           [st EXCEPT !.tools = IF payload.tool # NoTool
                                THEN mergeFirst(@, payload.tool) ELSE @]
      [] payload.action = "todo_update" ->
           [st EXCEPT !.todos = IF payload.todos # NoTodos
                                THEN payload.todos ELSE @]
      [] payload.action = "complete" -> [st EXCEPT !.status = "complete"]
      [] payload.action = "error" ->
           [st EXCEPT !.status = "error", !.errorMessage = payload.error]
      [] OTHER -> st

\* updateChatState
updateChatState(states, sid, payload) ==
    Put(states, sid, foldPayload(GetOr(states, sid, IdleState), payload))

fanOutAll(s, sid, msg) ==
    [s EXCEPT !.sent = [w \in Conns |->
        IF s.conn[w] = "open" THEN Append(s.sent[w], msg) ELSE s.sent[w]]]
fanOutTwice(s, sid, msg) ==
    [s EXCEPT !.sent = [w \in Conns |->
        IF s.conn[w] = "open" /\ s.ws[w] = sid
        THEN s.sent[w] \o <<msg, msg>> ELSE s.sent[w]]]
\* the fan-out loop of broadcastChat
fanOut(s, sid, msg) ==
    [s EXCEPT !.sent = [w \in Conns |->
        IF s.conn[w] = "open" /\ s.ws[w] = sid
        THEN Append(s.sent[w], msg) ELSE s.sent[w]]]

\* broadcastChat
broadcastChat(s, sid, payload, t) ==
    LET seq == nextSessionSeq(s, sid)
        msg == ChatMsg(sid, seq, t, payload)
        s1 == [s EXCEPT !.seqs = Put(@, sid, seq),
                        !.buffers = bufferEvent(@, sid, msg),
                        !.states = updateChatState(@, sid, payload),
                        !.appended = [@ EXCEPT ![sid] = Append(@, msg)],
                        !.folded = [@ EXCEPT ![sid] = Append(@, payload)]]
    IN fanOut(s1, sid, msg)

\* resetChatState
resetChatState(s, sid) ==
    [s EXCEPT !.states = Put(@, sid, FreshState),
              !.folded = [@ EXCEPT ![sid] = << >>]]

bindOnly(s, w, sid, t) == [s EXCEPT !.ws = [@ EXCEPT ![w] = sid]]
\* subscribeToSession
subscribeToSession(s, w, sid, t) ==
    LET s1 == [s EXCEPT !.ws = [@ EXCEPT ![w] = sid]]
    IN IF Has(s1.states, sid)
       THEN LET s2 == withSessionSeq([s1 EXCEPT !.gseq = @ + 1], sid)
            IN wsSend(s2, w, SnapshotMsg(sid, s2.gseq, t, FALSE, << >>,
                                         s2.states[sid], getSessionSeq(s2, sid)))
       ELSE s1

missedAll(buffer, lastSeq) == buffer
\* handleCatchUp's filter
missedEvents(buffer, lastSeq) ==
    SelectSeq(buffer, LAMBDA e : e.seq > lastSeq)

\* handleCatchUp, for a defined sessionId
handleCatchUp(s, w, sid, lastSeq, t) ==
    LET events == missedEvents(GetOr(s.buffers, sid, << >>), lastSeq)
        state == GetOr(s.states, sid, NoState)
        s1 == withSessionSeq([s EXCEPT !.gseq = @ + 1], sid)
    IN wsSend(s1, w, SnapshotMsg(sid, s1.gseq, t, TRUE, events, state,
                                 getSessionSeq(s1, sid)))

\* registerClient
registerClient(s, w, t) ==
    LET s1 == [s EXCEPT !.conn = [@ EXCEPT ![w] = "open"],
                        !.ws = [@ EXCEPT ![w] = None],
                        !.gseq = @ + 1]
    IN wsSend(s1, w, ConnectedMsg(s1.gseq, t))

\* the cleanup interval of startPeriodicTasks, for one session's buffer
sweepKeep(buffer, t) ==
    SelectSeq(buffer, LAMBDA e : e.timestamp > t - BUFFER_TTL)

\* ----------------------------------------------------------------- index.ts
\* ActiveProcess (types: part_000) and the locals of its handleChat call
NoProc == [pstate |-> "unused", ws |-> None, effective |-> None,
           sessionId |-> None, detected |-> None, aborted |-> FALSE,
           resume |-> None, inited |-> FALSE, armed |-> FALSE, quiet |-> TRUE]

Running(p) == procs[p].pstate \in {"reading", "exiting", "stderr"}
RECURSIVE SumLen(_, _)
SumLen(f, S) ==
    IF S = {} THEN 0
    ELSE LET x == CHOOSE y \in S : TRUE IN Len(f[x]) + SumLen(f, S \ {x})
CanAppend(sid) == SumLen(appended, AllIds) < MaxEvents
CanEmit(sid) == SumLen(appended, AllIds) < MaxTurnEvents

\* the "existing && !existing.aborted" test of handleChat
inProgress(sid) ==
    Has(activeProcesses, sid) /\ ~procs[activeProcesses[sid]].aborted

SrvConns == {"w1"}
ServerPayloads == {Token(<<"a">>), Complete}

\* createWebSocketHandler().open
Register(w) ==
    /\ connState[w] = "new"
    /\ SetSV(registerClient(SV, w, now))
    /\ UNCHANGED <<now, activeProcesses, procs, usedIds, nOps, nSys>>

\* createWebSocketHandler().close
Unregister(w) ==
    /\ connState[w] = "open"
    /\ SetSV([SV EXCEPT !.conn = [@ EXCEPT ![w] = "closed"]])
    /\ UNCHANGED <<now, activeProcesses, procs, usedIds, nOps, nSys>>

\* handleClientMessage: system / subscribe
Subscribe(w, sid) ==
    /\ connState[w] = "open"
    /\ nSys < MaxSys
    /\ SetSV(subscribeToSession(SV, w, sid, now))
    /\ nSys' = nSys + 1
    /\ usedIds' = usedIds \cup {sid}
    /\ UNCHANGED <<now, activeProcesses, procs, nOps>>

\* payload.lastSeq || 0
orZero(lastSeq) == IF lastSeq = NoSeq THEN 0 ELSE lastSeq

\* handleClientMessage: system / catch_up
CatchUp(w, sid, lastSeq) ==
    /\ connState[w] = "open"
    /\ nSys < MaxSys
    /\ IF sid = None THEN SetSV(SV)
       ELSE SetSV(handleCatchUp(SV, w, sid, orZero(lastSeq), now))
    /\ nSys' = nSys + 1
    /\ UNCHANGED <<now, activeProcesses, procs, usedIds, nOps>>

\* handleChat up to its first await
HandleChat(w, prov, p) ==
    /\ connState[w] = "open"
    /\ nOps < MaxChats
    /\ LET sessionId == wsSession[w]
           effective == IF sessionId # None THEN sessionId ELSE prov
           s1 == resetChatState(subscribeToSession(SV, w, effective, now), effective)
       IN /\ sessionId = None => prov \notin usedIds
          /\ sessionId # None => prov = CHOOSE x \in ProvIds : TRUE
          /\ usedIds' = usedIds \cup {effective}
          /\ IF inProgress(effective)
             THEN /\ CanEmit(effective)
                  /\ p = CHOOSE x \in ProcIds : TRUE
                  /\ SetSV(broadcastChat(s1, effective,
                                         ErrorP("A request is already in progress"), now))
                  /\ UNCHANGED <<activeProcesses, procs>>
             ELSE /\ procs[p].pstate = "unused"
                  /\ \A q \in ProcIds : procs[q].pstate = "unused" => p <= q
                  /\ SetSV(s1)
                  /\ procs' = [procs EXCEPT ![p] =
                        [NoProc EXCEPT !.pstate = "reading", !.ws = w,
                                       !.effective = effective,
                                       !.sessionId = effective,
                                       !.detected = effective,
                                       !.resume = sessionId, !.armed = TRUE]]
                  /\ activeProcesses' = Put(activeProcesses, effective, p)
    /\ nOps' = nOps + 1
    /\ UNCHANGED <<now, nSys>>

\* handleCancel, called with ws.data.sessionId
HandleCancel(w) ==
    /\ connState[w] = "open"
    /\ wsSession[w] # None
    /\ nOps < MaxChats
    /\ LET sid == wsSession[w] IN
       IF inProgress(sid)
       THEN /\ CanEmit(sid)
            /\ procs' = [procs EXCEPT ![activeProcesses[sid]].aborted = TRUE]
            /\ SetSV(broadcastChat(SV, sid, ErrorP("Request cancelled"), now))
       ELSE /\ SetSV(SV)
            /\ UNCHANGED procs
    /\ nOps' = nOps + 1
    /\ UNCHANGED <<now, activeProcesses, usedIds, nSys>>

effectiveSessionId(p) == procs[p].effective
\* detectedSessionId, as the callbacks and the rest of handleChat read it
detectedSessionId(p) == procs[p].detected

\* callbacks.onInit: the init record reveals the session id
ProcInit(p, sid) ==
    /\ procs[p].pstate = "reading"
    /\ ~procs[p].aborted
    /\ ~procs[p].inited
    /\ sid = procs[p].resume \/ sid \notin usedIds
    /\ usedIds' = usedIds \cup {sid}
    /\ IF sid # procs[p].effective
       THEN /\ activeProcesses' = Put(Del(activeProcesses, procs[p].effective), sid, p)
            /\ procs' = [procs EXCEPT ![p].detected = sid, ![p].sessionId = sid,
                                      ![p].inited = TRUE]
            /\ SetSV(resetChatState(subscribeToSession(SV, procs[p].ws, sid, now), sid))
       ELSE /\ procs' = [procs EXCEPT ![p].detected = sid, ![p].inited = TRUE]
            /\ SetSV(SV)
            /\ UNCHANGED activeProcesses
    /\ UNCHANGED <<now, nOps, nSys>>

\* callbacks.onText / onToolStart / onToolEnd / onTodoUpdate / onComplete
ProcEvent(p, payload) ==
    /\ procs[p].pstate = "reading"
    /\ ~procs[p].aborted
    /\ CanEmit(detectedSessionId(p))
    /\ SetSV(broadcastChat(SV, detectedSessionId(p), payload, now))
    /\ procs' = [procs EXCEPT ![p].quiet =
                    @ /\ payload.action \notin {"token", "tool_start", "tool_end"}]
    /\ UNCHANGED <<now, activeProcesses, usedIds, nOps, nSys>>

\* parseClaudeStream: a chunk is read after the abort flag was set
ProcAbortedRead(p) ==
    /\ procs[p].pstate = "reading"
    /\ procs[p].aborted
    /\ CanEmit(detectedSessionId(p))
    /\ SetSV(broadcastChat(SV, detectedSessionId(p), ErrorP("Request cancelled"), now))
    /\ procs' = [procs EXCEPT ![p].pstate = "exiting"]
    /\ UNCHANGED <<now, activeProcesses, usedIds, nOps, nSys>>

\* no record left in parseClaudeStream's buffer
NoPayload == Payload("none", NoText, NoTool, NoTodos, None)

\* parseClaudeStream: the read returns done, and what is left in the buffer
\* is processed.  While the process is not aborted a last record is a
\* ProcEvent before this step; the abort flag is not read on this path.
ProcStreamEnd(p, last) ==
    /\ procs[p].pstate = "reading"
    /\ ~procs[p].aborted => last = NoPayload
    /\ IF last # NoPayload
       THEN /\ CanEmit(detectedSessionId(p))
            /\ SetSV(broadcastChat(SV, detectedSessionId(p), last, now))
       ELSE SetSV(SV)
    /\ procs' = [procs EXCEPT ![p].pstate = "exiting"]
    /\ UNCHANGED <<now, activeProcesses, usedIds, nOps, nSys>>

\* the thinking timeout of handleChat
ThinkingTimer(p) ==
    /\ procs[p].pstate \in {"reading", "exiting"}
    /\ procs[p].armed
    /\ IF procs[p].quiet /\ ~procs[p].aborted
       THEN /\ CanEmit(detectedSessionId(p))
            /\ SetSV(broadcastChat(SV, detectedSessionId(p), Thinking, now))
            /\ UNCHANGED procs
       ELSE /\ SetSV(SV)
            /\ procs' = [procs EXCEPT ![p].armed = FALSE]
    /\ UNCHANGED <<now, activeProcesses, usedIds, nOps, nSys>>

\* handleChat after "await proc.exited", to the await of parseStderr or the end
ProcExit(p, exitCode) ==
    /\ procs[p].pstate = "exiting"
    /\ procs[p].aborted => exitCode # 0
    /\ IF exitCode # 0 /\ ~procs[p].aborted
       THEN /\ procs' = [procs EXCEPT ![p].pstate = "stderr", ![p].armed = FALSE]
            /\ SetSV(SV)
            /\ UNCHANGED activeProcesses
       ELSE /\ procs' = [procs EXCEPT ![p].pstate = "done", ![p].armed = FALSE]
            /\ IF ~procs[p].aborted
               THEN /\ CanEmit(detectedSessionId(p))
                    /\ SetSV(broadcastChat(SV, detectedSessionId(p), Complete, now))
               ELSE SetSV(SV)
            /\ activeProcesses' = Del(activeProcesses, detectedSessionId(p))
    /\ UNCHANGED <<now, usedIds, nOps, nSys>>

\* handleChat after "await parseStderr": the error, then the finally block
ProcStderr(p) ==
    /\ procs[p].pstate = "stderr"
    /\ CanEmit(detectedSessionId(p))
    /\ SetSV(broadcastChat(SV, detectedSessionId(p), ErrorP("Unknown error"), now))
    /\ procs' = [procs EXCEPT ![p].pstate = "done"]
    /\ activeProcesses' = Del(activeProcesses, detectedSessionId(p))
    /\ UNCHANGED <<now, usedIds, nOps, nSys>>

\* time passes
Tick ==
    /\ now + BUFFER_TTL <= MaxTicks * BUFFER_TTL
    /\ now' = now + BUFFER_TTL
    /\ SetSV(SV)
    /\ UNCHANGED <<activeProcesses, procs, usedIds, nOps, nSys>>

\* the cleanup interval of startPeriodicTasks
Sweep ==
    /\ LET gone == {sid \in DOMAIN sessionBuffers :
                      sweepKeep(sessionBuffers[sid], now) = << >>}
       IN /\ sessionBuffers' =
                [sid \in DOMAIN sessionBuffers \ gone |->
                    sweepKeep(sessionBuffers[sid], now)]
          /\ sessionSeqs' = [sid \in DOMAIN sessionSeqs \ gone |-> sessionSeqs[sid]]
          /\ chatStates' = [sid \in DOMAIN chatStates \ gone |-> chatStates[sid]]
    /\ sent' = NoneSent
    /\ UNCHANGED <<connState, wsSession, globalSeq, now, activeProcesses,
                   procs, appended, sinceReset, usedIds, nOps, nSys>>


\* ------------------------------------------- websocket.ts, called directly
WsConns == {"w1"}
WsPayloads == {Token(<<"a">>), ToolStart(StartTool("t1")), Complete}

\* broadcastToken / broadcastToolStart / ... / broadcastError
BroadcastChat(sid, payload) ==
    /\ CanAppend(sid)
    /\ SetSV(broadcastChat(SV, sid, payload, now))
    /\ UNCHANGED <<now, activeProcesses, procs, usedIds, nOps, nSys>>

\* broadcastToken / ... called many times for one session: after the first
\* TrimChoices events the calls are broadcastToken
AppendEvent(sid, payload) ==
    /\ Len(appended[sid]) < MaxTrimEvents
    /\ Len(appended[sid]) >= TrimChoices => payload = Token(<<"a">>)
    /\ SetSV(broadcastChat(SV, sid, payload, now))
    /\ UNCHANGED <<now, activeProcesses, procs, usedIds, nOps, nSys>>

\* resetChatState
ResetChatState(sid) ==
    /\ nOps < MaxResets
    /\ SetSV(resetChatState(SV, sid))
    /\ nOps' = nOps + 1
    /\ UNCHANGED <<now, activeProcesses, procs, usedIds, nSys>>

\* ----------------------------------------------------------------- claude.ts
\* One line of the host process output, parsed.  type "other" stands for every
\* record processEvent has no branch for; blocks is message.content (hasContent:
\* whether it is there), fallbackId is message.content[0].tool_use_id as the
\* fallback branch reads it.
Rec(type, inner, blocks, hasContent, hasResult, sid) ==
    [type |-> type, inner |-> inner, blocks |-> blocks, hasContent |-> hasContent,
     hasResult |-> hasResult, sid |-> sid]
\* a content block of a message: tool_use, tool_result or text
Block(type, id, name, hasTodos) ==
    [type |-> type, id |-> id, name |-> name, hasTodos |-> hasTodos]
ToolUse(id, name) == Block("tool_use", id, name, name = "TodoWrite")
ToolResult(id) == Block("tool_result", id, None, FALSE)
TextBlock == Block("text", None, None, FALSE)

InitRec(sid) == Rec("system", "init", << >>, FALSE, FALSE, sid)
TextDelta == Rec("stream_event", "text_delta", << >>, FALSE, FALSE, None)
BlockStart(id, name) ==
    Rec("stream_event", "content_block_start", <<ToolUse(id, name)>>, FALSE, FALSE, None)
LegacyDelta == Rec("content_block_delta", "text_delta", << >>, FALSE, FALSE, None)
Assistant(blocks) == Rec("assistant", None, blocks, TRUE, FALSE, None)
User(blocks) == Rec("user", None, blocks, TRUE, TRUE, None)
UserNoResult(blocks) == Rec("user", None, blocks, TRUE, FALSE, None)
UserNoContent == Rec("user", None, << >>, FALSE, TRUE, None)
ResultRec == Rec("result", None, << >>, FALSE, FALSE, None)
OtherRec == Rec("other", None, << >>, FALSE, FALSE, None)

\* a callback invocation; duration is that of a tool-end, NoDuration otherwise
NoDuration == -1
\* Date.now() - activeTool.startTime: any time; the classifier does not test it
Elapsed == 1
Emit(ev, id, name) == [ev |-> ev, id |-> id, name |-> name, duration |-> NoDuration]
\* the outcome of classifying: the tracked tools and the callbacks invoked
Out(tools, out) == [tools |-> tools, out |-> out]

\* processEvent: the early path (content_block_start of a tool_use block)
earlyTool(tools, block) ==
    IF ~Has(tools, block.id)
    THEN Out(Put(tools, block.id, block.name),
             <<Emit("tool-start", block.id, block.name)>>)
    ELSE Out(tools, << >>)

\* processEvent: the loop over the content of an assistant message
RECURSIVE assistantBlocks(_, _)
assistantBlocks(tools, blocks) ==
    IF blocks = << >> THEN Out(tools, << >>)
    ELSE LET block == Head(blocks)
             isNew == block.type = "tool_use" /\ ~Has(tools, block.id)
             tools1 == IF isNew THEN Put(tools, block.id, block.name) ELSE tools
             start == IF isNew THEN <<Emit("tool-start", block.id, block.name)>>
                      ELSE << >>
             todo == IF block.type = "tool_use" /\ block.name = "TodoWrite"
                        /\ block.hasTodos
                     THEN <<Emit("todo", block.id, block.name)>> ELSE << >>
             rest == assistantBlocks(tools1, Tail(blocks))
         IN Out(rest.tools, start \o todo \o rest.out)

toolEndTracked(tools, id) ==
    IF Has(tools, id)
    THEN Out(Del(tools, id),
             <<[Emit("tool-end", id, tools[id]) EXCEPT !.duration = Elapsed]>>)
    ELSE Out(tools, << >>)
\* processEvent: one tool result, in the loop or in the fallback branch
toolEnd(tools, id) ==
    Out(Del(tools, id),
        <<[Emit("tool-end", id, GetOr(tools, id, "unknown"))
              EXCEPT !.duration = IF Has(tools, id) THEN Elapsed ELSE 0]>>)

userFirstBlock(tools, blocks) ==
    IF blocks # << >> /\ Head(blocks).type = "tool_result" /\ Head(blocks).id # None
    THEN toolEnd(tools, Head(blocks).id) ELSE Out(tools, << >>)
\* processEvent: the loop over the content of a user message
RECURSIVE userBlocks(_, _)
userBlocks(tools, blocks) ==
    IF blocks = << >> THEN Out(tools, << >>)
    ELSE LET block == Head(blocks)
             one == IF block.type = "tool_result" /\ block.id # None
                    THEN toolEnd(tools, block.id) ELSE Out(tools, << >>)
             rest == userBlocks(one.tools, Tail(blocks))
         IN Out(rest.tools, one.out \o rest.out)

\* processEvent
processEvent(event, tools) ==
    CASE event.type = "system" /\ event.inner = "init" ->
           Out(tools, <<Emit("init", event.sid, None)>>)
      [] event.type = "stream_event" /\ event.inner = "text_delta" ->
           Out(tools, <<Emit("text", None, None)>>)
      [] event.type = "stream_event" /\ event.inner = "content_block_start" ->
           IF event.blocks # << >> /\ event.blocks[1].type = "tool_use"
           THEN earlyTool(tools, event.blocks[1]) ELSE Out(tools, << >>)
      [] event.type = "content_block_delta" /\ event.inner = "text_delta" ->
           Out(tools, <<Emit("text", None, None)>>)
      [] event.type = "assistant" ->
           IF event.hasContent THEN assistantBlocks(tools, event.blocks)
           ELSE Out(tools, << >>)
      [] event.type = "user" /\ event.hasResult ->
           \* without a content array the fallback reads content[0] of nothing
           IF event.hasContent THEN userBlocks(tools, event.blocks)
           ELSE Out(tools, << >>)
      [] event.type = "result" -> Out(tools, <<Emit("complete", None, None)>>)
      [] OTHER -> Out(tools, << >>)

\* the records a host process may write, as far as the classifier tells them apart
Records ==
    {InitRec("s1"), TextDelta, LegacyDelta, ResultRec, OtherRec,
     BlockStart("t1", "Read"), BlockStart("t2", "Read"),
     Assistant(<<ToolUse("t1", "Read")>>),
     Assistant(<<TextBlock, ToolUse("t2", "TodoWrite")>>),
     User(<<ToolResult("t1")>>), User(<<ToolResult("t1"), ToolResult("t2")>>),
     UserNoResult(<<ToolResult("t1")>>), UserNoContent}

\* parseClaudeStream: one complete line is parsed and classified
ProcessEvent(event) ==
    /\ nRecords < MaxRecords
    /\ LET r == processEvent(event, activeTools)
       IN /\ activeTools' = r.tools
          /\ emitted' = emitted \o r.out
    /\ nRecords' = nRecords + 1
    /\ UNCHANGED <<streamBuffer, unread, isAborted, parserState, lines>>

\* The output of the host process is text; a text is modelled as the sequence
\* of its pieces between line breaks.  A piece is the whole text of one record,
\* text that is not JSON, or the JSON literal null.
Malformed == [type |-> "malformed"]
NullLit == [type |-> "null"]
ParserRecords ==
    {BlockStart("t1", "Read"), User(<<ToolResult("t1")>>), OtherRec}
Pieces == ParserRecords \cup {Malformed, NullLit}
\* a chunk: at most one piece, followed by a line break or not
Chunk(text, nl) == [text |-> text, nl |-> nl]
Chunks ==
    {Chunk(<<x>>, nl) : x \in Pieces, nl \in BOOLEAN} \cup {Chunk(<< >>, TRUE)}
\* callbacks.onError('Request cancelled')
CancelError == Emit("error", None, "Request cancelled")
StreamError == Emit("error", None, "Stream error")

parseStrict(line, tools) ==
    IF Len(line) = 1 /\ line[1] \in ParserRecords
    THEN processEvent(line[1], tools)
    ELSE Out(tools, <<StreamError>>)
\* parseClaudeStream: the body of the loop over the lines, and the same code
\* for the remaining buffer: a blank line is skipped; JSON.parse throws unless
\* the line is the text of one value; processEvent throws on null; the catch
\* block swallows both
parseLine(line, tools) ==
    IF line = << >> THEN Out(tools, << >>)
    ELSE IF Len(line) > 1 \/ line[1] = Malformed THEN Out(tools, << >>)
    ELSE IF line[1] = NullLit THEN Out(tools, << >>)
    ELSE processEvent(line[1], tools)

\* parseClaudeStream: reader.read() returns a chunk
ReadChunk(chunk) ==
    /\ parserState = "reading"
    /\ nRecords < MaxReads
    /\ nRecords' = nRecords + 1
    /\ IF isAborted
       THEN /\ emitted' = Append(emitted, CancelError)
            /\ parserState' = "cancelled"
            /\ UNCHANGED <<activeTools, streamBuffer, lines>>
       ELSE IF chunk.nl
            THEN LET line == streamBuffer \o chunk.text
                     r == parseLine(line, activeTools)
                 IN /\ activeTools' = r.tools
                    /\ emitted' = emitted \o r.out
                    /\ lines' = Append(lines, line)
                    /\ streamBuffer' = << >>
                    /\ UNCHANGED parserState
            ELSE /\ streamBuffer' = streamBuffer \o chunk.text
                 /\ UNCHANGED <<activeTools, emitted, lines, parserState>>
    /\ UNCHANGED <<isAborted, unread>>

\* parseClaudeStream: reader.read() returns done
StreamDone ==
    /\ parserState = "reading"
    /\ parserState' = "done"
    /\ IF streamBuffer # << >>
       THEN LET r == parseLine(streamBuffer, activeTools)
            IN /\ activeTools' = r.tools
               /\ emitted' = emitted \o r.out
               /\ lines' = Append(lines, streamBuffer)
       ELSE UNCHANGED <<activeTools, emitted, lines>>
    /\ UNCHANGED <<nRecords, streamBuffer, unread, isAborted>>

\* handleCancel sets processInfo.aborted, which isAborted() reads
SetAborted ==
    /\ parserState = "reading"
    /\ ~isAborted
    /\ isAborted' = TRUE
    /\ UNCHANGED <<activeTools, emitted, nRecords, streamBuffer, unread,
                   parserState, lines>>

InitClassifier ==
    /\ activeTools = EmptyMap
    /\ emitted = << >>
    /\ nRecords = 0
    /\ streamBuffer = << >>
    /\ unread = << >>
    /\ isAborted = FALSE
    /\ parserState = "reading"
    /\ lines = << >>

\* -------------------------------------------------------------- useClaude.ts
\* currentAssistantMessageRef.current = null; message ids are 1, 2, ...
NoMsgId == 0
UserText == <<"h", "i">>
Whitespace == {" "}
\* String.prototype.trim() of text is not empty
NotBlank(text) == \E i \in 1..Len(text) : text[i] \notin Whitespace

\* ContentBlock, without its timestamp
TextOf(text) == [type |-> "text", content |-> text, tools |-> << >>]
GroupOf(tools) == [type |-> "tool_group", content |-> NoText, tools |-> tools]
\* ChatMessage, without its timestamp
Message(id, role, content, tools, blocks, streaming) ==
    [id |-> id, role |-> role, content |-> content, tools |-> tools,
     contentBlocks |-> blocks, isStreaming |-> streaming]

\* The hook after its first render.  batched tells how the React root treats a
\* state setter called outside a React event handler: a synchronous root
\* processes the update inside the call, a concurrent root queues it and runs
\* updater functions at the next render, except that an update to a component
\* with no update pending is computed at once.
Client0(batched, sid) ==
    [batched |-> batched, dirty |-> FALSE, queue |-> << >>, nextId |-> 1,
     \* refs
     lastSeq |-> 0, currentAssistantMessage |-> NoMsgId,
     streamingContentRef |-> NoText, completedToolsRef |-> << >>,
     isStreamingRef |-> FALSE, contentBlocks |-> << >>, pendingText |-> NoText,
     currentToolGroup |-> << >>,
     \* state
     sessionId |-> sid, error |-> None, messages |-> << >>,
     streamingContent |-> NoText, activeTools |-> << >>,
     completedTools |-> << >>, todos |-> NoTodos, isStreaming |-> FALSE]

\* what a render shows
StateOf(c) ==
    <<c.sessionId, c.error, c.messages, c.streamingContent, c.activeTools,
      c.completedTools, c.todos, c.isStreaming>>

\* an update handed to a state setter: a value or an updater function
U(op) == [op |-> op, text |-> NoText, tool |-> NoTool, tools |-> << >>,
          flag |-> FALSE, str |-> None, blocks |-> << >>, id |-> NoMsgId]

HasTool(tools, id) == \E i \in 1..Len(tools) : tools[i].id = id
WithoutTool(tools, id) == SelectSeq(tools, LAMBDA t : t.id # id)
FirstIndex(msgs, P(_)) ==
    IF \E i \in 1..Len(msgs) : P(msgs[i])
    THEN CHOOSE i \in 1..Len(msgs) : P(msgs[i]) /\ \A j \in 1..(i - 1) : ~P(msgs[j])
    ELSE 0

\* the updater of setMessages in the complete branch
finalize(c, u) ==
    LET byId == FirstIndex(c.messages, LAMBDA m : m.id = u.id)
        idx == IF byId > 0 THEN byId
               ELSE FirstIndex(c.messages, LAMBDA m : m.isStreaming)
    IN IF idx > 0
       THEN [c EXCEPT !.messages[idx] =
                [@ EXCEPT !.content = u.text, !.tools = u.tools,
                          !.contentBlocks = u.blocks, !.isStreaming = FALSE]]
       ELSE IF u.text # NoText \/ u.tools # << >> \/ u.blocks # << >>
            THEN [c EXCEPT !.messages = Append(@, Message(c.nextId, "assistant",
                                           u.text, u.tools, u.blocks, FALSE)),
                           !.nextId = @ + 1]
            ELSE c

\* the updater of setActiveTools in the tool_end branch
endActiveTool(c, u) ==
    LET filtered == WithoutTool(c.activeTools, u.tool.id) IN
    IF filtered = << >> /\ c.currentToolGroup # << >>
    THEN [c EXCEPT !.activeTools = filtered,
                   !.contentBlocks = Append(@, GroupOf(c.currentToolGroup)),
                   !.currentToolGroup = << >>]
    ELSE [c EXCEPT !.activeTools = filtered]

\* React processes one update: the new state, and what the updater does besides
apply(c, u) ==
    CASE u.op = "content+" ->
           [c EXCEPT !.streamingContent = @ \o u.text,
                     !.streamingContentRef = c.streamingContent \o u.text]
      [] u.op = "content=" -> [c EXCEPT !.streamingContent = u.text]
      [] u.op = "active+" ->
           IF HasTool(c.activeTools, u.tool.id) THEN c
           ELSE [c EXCEPT !.activeTools = Append(@, u.tool)]
      [] u.op = "active-" -> endActiveTool(c, u)
      [] u.op = "active=" -> [c EXCEPT !.activeTools = u.tools]
      [] u.op = "completed+" ->
           IF HasTool(c.completedTools, u.tool.id) THEN c
           ELSE [c EXCEPT !.completedTools = Append(@, u.tool),
                          !.completedToolsRef = Append(c.completedTools, u.tool)]
      [] u.op = "completed=" -> [c EXCEPT !.completedTools = u.tools]
      [] u.op = "todos=" -> [c EXCEPT !.todos = u.str]
      [] u.op = "streaming=" -> [c EXCEPT !.isStreaming = u.flag]
      [] u.op = "error=" -> [c EXCEPT !.error = u.str]
      [] u.op = "session=" -> [c EXCEPT !.sessionId = u.str]
      [] u.op = "finalize" -> finalize(c, u)
      [] u.op = "messages+" ->
           [c EXCEPT !.messages = @ \o
               <<Message(u.id, "user", u.text, << >>, << >>, FALSE),
                 Message(u.id + 1, "assistant", NoText, << >>, << >>, TRUE)>>]
      [] OTHER -> c

\* a call of a state setter
set(c, u) ==
    IF ~c.batched THEN apply(c, u)
    ELSE IF ~c.dirty
         THEN LET c1 == apply(c, u) IN
              [c1 EXCEPT !.dirty = StateOf(c1) # StateOf(c)]
         ELSE [c EXCEPT !.queue = Append(@, u)]

RECURSIVE applyAll(_, _)
applyAll(c, queue) ==
    IF queue = << >> THEN c ELSE applyAll(apply(c, Head(queue)), Tail(queue))
\* React renders the component: the queued updates are processed in order
render(c) == [applyAll(c, c.queue) EXCEPT !.queue = << >>, !.dirty = FALSE]

\* the "Reset streaming state" lines of the complete and error branches
resetStreaming(c) ==
    LET c1 == [set(c, U("content=")) EXCEPT !.streamingContentRef = NoText]
        c2 == set(set(c1, U("active=")), U("completed="))
    IN [c2 EXCEPT !.completedToolsRef = << >>, !.contentBlocks = << >>,
                  !.pendingText = NoText, !.currentToolGroup = << >>,
                  !.currentAssistantMessage = NoMsgId]

flushAny(c) ==
    IF c.pendingText # NoText
    THEN [c EXCEPT !.contentBlocks = Append(@, TextOf(c.pendingText)),
                   !.pendingText = NoText]
    ELSE c
\* pending text is sealed into a text block
flushText(c) ==
    IF NotBlank(c.pendingText)
    THEN [c EXCEPT !.contentBlocks = Append(@, TextOf(c.pendingText)),
                   !.pendingText = NoText]
    ELSE c

\* the open tool group is sealed into a tool_group block
flushGroup(c) ==
    IF c.currentToolGroup # << >>
    THEN [c EXCEPT !.contentBlocks = Append(@, GroupOf(c.currentToolGroup)),
                   !.currentToolGroup = << >>]
    ELSE c

\* handleMessage, case 'token'
onToken(c, payload) ==
    IF payload.content # NoText
    THEN set([c EXCEPT !.pendingText = @ \o payload.content],
             [U("content+") EXCEPT !.text = payload.content])
    ELSE c

\* handleMessage, case 'tool_start'
onToolStart(c, payload) ==
    IF payload.tool # NoTool
    THEN LET c1 == flushText(c)
             c2 == IF ~HasTool(c1.currentToolGroup, payload.tool.id)
                   THEN [c1 EXCEPT !.currentToolGroup = Append(@, payload.tool)]
                   ELSE c1
         IN set(c2, [U("active+") EXCEPT !.tool = payload.tool])
    ELSE c

\* handleMessage, case 'tool_end'
onToolEnd(c, payload) ==
    IF payload.tool # NoTool
    THEN LET c1 == [c EXCEPT !.currentToolGroup =
                       [i \in 1..Len(@) |->
                           IF @[i].id = payload.tool.id
                           THEN MergeTool(@[i], payload.tool) ELSE @[i]]]
             c2 == set(c1, [U("active-") EXCEPT !.tool = payload.tool])
         IN set(c2, [U("completed+") EXCEPT !.tool = payload.tool])
    ELSE c

\* handleMessage, case 'complete'
onComplete(c) ==
    LET c1 == [set(c, U("streaming=")) EXCEPT !.isStreamingRef = FALSE]
        c2 == flushGroup(flushText(c1))
        c3 == set(c2, [U("finalize") EXCEPT !.text = c2.streamingContentRef,
                                            !.tools = c2.completedToolsRef,
                                            !.blocks = c2.contentBlocks,
                                            !.id = c2.currentAssistantMessage])
    IN resetStreaming(c3)

\* handleMessage, case 'error' of a chat message
onError(c, payload) ==
    LET c1 == [set(c, U("streaming=")) EXCEPT !.isStreamingRef = FALSE]
        c2 == set(c1, [U("error=") EXCEPT !.str =
                          IF payload.error # None THEN payload.error
                          ELSE "Unknown error"])
    IN resetStreaming(c2)

\* handleMessage, "Update sequence tracking"
trackSeq(c, msg) == IF msg.seq > c.lastSeq THEN [c EXCEPT !.lastSeq = msg.seq] ELSE c

\* handleMessage for a chat message
handleChatMessage(c, msg) ==
    LET c1 == trackSeq(c, msg)
        payload == msg.payload
    IN CASE payload.action = "token" -> onToken(c1, payload)
         [] payload.action = "tool_start" -> onToolStart(c1, payload)
         [] payload.action = "tool_end" -> onToolEnd(c1, payload)
         [] payload.action = "todo_update" ->
              IF payload.todos # NoTodos
              THEN set(c1, [U("todos=") EXCEPT !.str = payload.todos]) ELSE c1
         [] payload.action = "complete" -> onComplete(c1)
         [] payload.action = "error" -> onError(c1, payload)
         [] OTHER -> c1

\* handleMessage, case 'snapshot': the loop that replays payload.events (the
\* events of a snapshot are the chat messages of the server's buffer)
RECURSIVE replayEvents(_, _)
replayEvents(c, events) ==
    IF events = << >> THEN c
    ELSE replayEvents(handleChatMessage(c, Head(events)), Tail(events))

\* handleMessage, case 'snapshot': "Restore chat state"
restoreChatState(c, state) ==
    IF state = NoState THEN c
    ELSE LET c1 == IF state.status = "streaming"
                   THEN set([set(c, [U("streaming=") EXCEPT !.flag = TRUE])
                                EXCEPT !.isStreamingRef = TRUE],
                            [U("content=") EXCEPT !.text = state.accumulatedContent])
                   ELSE c
             c2 == set(c1, [U("completed=") EXCEPT !.tools = state.tools])
         IN IF state.todos # NoTodos
            THEN set(c2, [U("todos=") EXCEPT !.str = state.todos]) ELSE c2

\* handleMessage for a system message
handleSystemMessage(c, msg) ==
    LET c1 == trackSeq(c, msg)
        payload == msg.payload
    IN CASE payload.action = "connected" ->
              IF payload.currentSeq # 0
              THEN [c1 EXCEPT !.lastSeq = payload.currentSeq] ELSE c1
         [] payload.action = "snapshot" ->
              LET c2 == IF payload.sessionId # None
                        THEN set(c1, [U("session=") EXCEPT !.str = payload.sessionId])
                        ELSE c1
                  c3 == IF payload.hasEvents THEN replayEvents(c2, payload.events)
                        ELSE c2
              IN restoreChatState(c3, payload.chatState)
         [] OTHER -> c1

\* handleMessage
handleMessage(c, msg) ==
    IF msg.type = "chat" THEN handleChatMessage(c, msg)
    ELSE handleSystemMessage(c, msg)

\* send(), on an open socket
send(c) ==
    IF c.isStreamingRef THEN c
    ELSE LET c1 == [set(c, [U("streaming=") EXCEPT !.flag = TRUE])
                       EXCEPT !.isStreamingRef = TRUE]
             c2 == [set(c1, U("content=")) EXCEPT !.streamingContentRef = NoText]
             c3 == [set(set(c2, U("active=")), U("completed="))
                       EXCEPT !.completedToolsRef = << >>]
             c4 == [set(c3, U("error=")) EXCEPT !.currentAssistantMessage = c.nextId + 1,
                                               !.nextId = c.nextId + 2]
         IN set(c4, [U("messages+") EXCEPT !.id = c.nextId, !.text = UserText])

\* the payloads of one session's turn that the reducer is fed
FoldPayloads ==
    {Token(<<"a">>), Token(<<" ">>), ToolStart(StartTool("t1")),
     ToolStart(StartTool("t2")), ToolEnd(EndTool("t1", "Read")), Complete}

\* the caller sends the message that starts the turn: send() on both
\* instances of the hook, and on the server the reset of the session's derived
\* state that handleChat makes
TurnStart ==
    /\ ~replayed
    /\ client.nextId < 2 * MaxSends
    /\ ~client.isStreamingRef
    /\ appended["s1"] = << >>
    /\ client' = send(client)
    /\ replica' = send(client)
    /\ SetSV(resetChatState(SV, "s1"))
    /\ UNCHANGED <<now, activeProcesses, procs, usedIds, nOps, nSys, replayed>>

\* the server broadcasts a chat event and the client's socket delivers it
Deliver(payload) ==
    /\ ~replayed
    /\ Len(appended["s1"]) < MaxFold
    /\ LET s == broadcastChat(SV, "s1", payload, now)
       IN /\ SetSV(s)
          /\ client' = handleMessage(client, Last(s.appended["s1"]))
    /\ UNCHANGED <<now, activeProcesses, procs, usedIds, nOps, nSys, replica,
                   replayed>>

\* React renders the component
Render ==
    /\ client.dirty
    /\ client' = render(client)
    /\ replica' = IF appended["s1"] = << >> THEN render(client) ELSE replica
    /\ UNCHANGED <<serverVars, replayed>>

\* the second instance receives the session's events as a catch-up snapshot
Replay ==
    /\ ~replayed
    /\ appended["s1"] # << >>
    /\ LET s == handleCatchUp(SV, "w1", "s1", 0, now)
           msg == SnapshotMsg("s1", s.gseq, now, TRUE,
                              missedEvents(sessionBuffers["s1"], 0),
                              chatStates["s1"], getSessionSeq(SV, "s1"))
       IN replica' = handleMessage(replica, msg)
    /\ replayed' = TRUE
    /\ UNCHANGED <<serverVars, client>>

\* React renders the second instance
RenderReplica ==
    /\ replica.dirty
    /\ replica' = render(replica)
    /\ UNCHANGED <<serverVars, client, replayed>>

InitReducer(batched) ==
    /\ client = Client0(batched, "s1")
    /\ replica = Client0(batched, "s1")
    /\ replayed = FALSE

\* ------------------------------------------------ useClaude.ts: connection
SockIds == 1..MaxSockets
TimerIds == 1..MaxTimers
\* wsRef.current = null, reconnectTimeoutRef.current = null
NoSocket == 0
NoTimer == 0
NoSock == [readyState |-> "unused", sessionId |-> None]
NoTime == [state |-> "unused", sessionId |-> None]
\* the subscribe request of ws.onopen
SubscribeMsg(sid) == [type |-> "system", action |-> "subscribe", sessionId |-> sid]

\* connect(), as created by a render in which the sessionId state was sid
connect(sid) ==
    IF wsRef # NoSocket /\ sockets[wsRef].readyState = "open"
    THEN UNCHANGED <<status, sockets, wsRef, client>>
    ELSE /\ status' = "connecting"
         /\ client' = set(client, U("error="))
         /\ \E k \in SockIds :
               /\ sockets[k].readyState = "unused"
               /\ \A j \in SockIds : sockets[j].readyState = "unused" => k <= j
               /\ sockets' = [sockets EXCEPT ![k] =
                                 [readyState |-> "connecting", sessionId |-> sid]]
               /\ wsRef' = k

\* the caller (or the mount effect) calls connect()
Connect ==
    /\ nCalls < MaxCalls
    /\ nCalls' = nCalls + 1
    /\ connect(client.sessionId)
    /\ exhausted' = FALSE
    /\ callerDisconnected' = FALSE
    /\ UNCHANGED <<reconnectAttempts, reconnectTimeoutRef, timers, up, down,
                   folded, replica, replayed>>

\* ws.onopen
SocketOpen(k) ==
    /\ sockets[k].readyState = "connecting"
    /\ sockets' = [sockets EXCEPT ![k].readyState = "open"]
    /\ status' = "connected"
    /\ reconnectAttempts' = 0
    /\ up' = IF sockets[k].sessionId # None
             THEN [up EXCEPT ![k] = Append(@, SubscribeMsg(sockets[k].sessionId))]
             ELSE up
    /\ UNCHANGED <<wsRef, reconnectTimeoutRef, timers, down, folded, exhausted, callerDisconnected,
                   nCalls, reducerVars>>

\* ws.onclose (after ws.onerror when the connection failed)
SocketClose(k, failed) ==
    /\ sockets[k].readyState \in {"connecting", "open", "closing"}
    /\ sockets' = [sockets EXCEPT ![k].readyState = "closed"]
    /\ client' = IF failed
                 THEN set(client, [U("error=") EXCEPT !.str = "Connection error"])
                 ELSE client
    /\ wsRef' = NoSocket
    /\ up' = [up EXCEPT ![k] = << >>]
    /\ down' = [down EXCEPT ![k] = << >>]
    /\ IF reconnectAttempts < maxReconnectAttempts
       THEN /\ status' = "reconnecting"
            /\ \E t \in TimerIds :
                  /\ timers[t].state = "unused"
                  /\ \A j \in TimerIds : timers[j].state = "unused" => t <= j
                  /\ timers' = [timers EXCEPT ![t] =
                        [state |-> "pending", sessionId |-> sockets[k].sessionId]]
                  /\ reconnectTimeoutRef' = t
            /\ UNCHANGED exhausted
       ELSE /\ status' = "disconnected"
            /\ exhausted' = TRUE
            /\ UNCHANGED <<timers, reconnectTimeoutRef>>
    /\ UNCHANGED <<reconnectAttempts, folded, callerDisconnected, nCalls, replica,
                   replayed>>

\* the callback of the timer set in ws.onclose
TimerFire(t) ==
    /\ timers[t].state = "pending"
    /\ timers' = [timers EXCEPT ![t].state = "fired"]
    /\ reconnectAttempts' = reconnectAttempts + 1
    /\ connect(timers[t].sessionId)
    /\ UNCHANGED <<reconnectTimeoutRef, up, down, folded, exhausted, callerDisconnected, nCalls,
                   replica, replayed>>

\* disconnect()
Disconnect ==
    /\ nCalls < MaxCalls
    /\ nCalls' = nCalls + 1
    /\ IF reconnectTimeoutRef # NoTimer
       THEN /\ timers' = [timers EXCEPT ![reconnectTimeoutRef].state =
                              IF @ = "pending" THEN "cleared" ELSE @]
            /\ reconnectTimeoutRef' = NoTimer
       ELSE UNCHANGED <<timers, reconnectTimeoutRef>>
    /\ IF wsRef # NoSocket /\ sockets[wsRef].readyState # "closed"
       THEN /\ reconnectAttempts' = maxReconnectAttempts
            /\ sockets' = [sockets EXCEPT ![wsRef].readyState = "closing"]
            /\ wsRef' = NoSocket
            /\ status' = "disconnected"
       ELSE UNCHANGED <<reconnectAttempts, sockets, wsRef, status>>
    /\ callerDisconnected' = TRUE
    /\ UNCHANGED <<up, down, folded, exhausted, reducerVars>>

InitConn ==
    /\ status = "disconnected"
    /\ wsRef = NoSocket
    /\ reconnectAttempts = 0
    /\ reconnectTimeoutRef = NoTimer
    /\ sockets = [k \in SockIds |-> NoSock]
    /\ timers = [t \in TimerIds |-> NoTime]
    /\ up = [k \in SockIds |-> << >>]
    /\ down = [k \in SockIds |-> << >>]
    /\ folded = << >>
    /\ exhausted = FALSE
    /\ callerDisconnected = FALSE
    /\ nCalls = 0

\* ------------------------------------------- client and server, end to end
\* the client's k-th WebSocket is the server's k-th connection
Links == 1..MaxLinks
ConnOf(k) == IF k = 1 THEN "w1" ELSE "w2"
LinkPayloads == {Token(<<"a">>), Complete}
\* no WebSocket beyond the first MaxLinks is created
OnlyLinks == \A k \in SockIds \ Links : sockets'[k].readyState = "unused"
\* what the server sent in this step travels to the client's sockets
Carry ==
    down' = [k \in SockIds |->
                IF k \in Links /\ sockets[k].readyState \in {"connecting", "open"}
                THEN down[k] \o sent'[ConnOf(k)] ELSE down[k]]
\* the sequence numbers of the chat events handleMessage folds for msg
FoldedBy(msg) ==
    IF msg.type = "chat" THEN <<msg.seq>>
    ELSE IF msg.payload.action = "snapshot" /\ msg.payload.hasEvents
         THEN SeqNums(msg.payload.events) ELSE << >>

\* the mount effect calls connect()
LinkConnect ==
    /\ nCalls = 0
    /\ Connect
    /\ OnlyLinks
    /\ UNCHANGED serverVars

\* createWebSocketHandler().open for the client's k-th WebSocket
LinkAccept(k) ==
    /\ sockets[k].readyState = "connecting"
    /\ Register(ConnOf(k))
    /\ Carry
    /\ UNCHANGED <<status, wsRef, reconnectAttempts, reconnectTimeoutRef, sockets,
                   timers, up, folded, exhausted, callerDisconnected, nCalls, reducerVars>>

\* ws.onopen, once the server has accepted the connection
LinkOpen(k) ==
    /\ connState[ConnOf(k)] # "new"
    /\ SocketOpen(k)
    /\ UNCHANGED serverVars

\* handleClientMessage for the client's subscribe request
LinkServerReceive(k) ==
    /\ up[k] # << >>
    /\ connState[ConnOf(k)] = "open"
    /\ SetSV(subscribeToSession(SV, ConnOf(k), Head(up[k]).sessionId, now))
    /\ up' = [up EXCEPT ![k] = Tail(@)]
    /\ Carry
    /\ UNCHANGED <<now, activeProcesses, procs, usedIds, nOps, nSys>>
    /\ UNCHANGED <<status, wsRef, reconnectAttempts, reconnectTimeoutRef, sockets,
                   timers, folded, exhausted, callerDisconnected, nCalls, reducerVars>>

\* ws.onmessage
LinkClientReceive(k) ==
    /\ down[k] # << >>
    /\ sockets[k].readyState = "open"
    /\ client' = handleMessage(client, Head(down[k]))
    /\ down' = [down EXCEPT ![k] = Tail(@)]
    /\ folded' = folded \o FoldedBy(Head(down[k]))
    /\ UNCHANGED <<status, wsRef, reconnectAttempts, reconnectTimeoutRef, sockets,
                   timers, up, exhausted, callerDisconnected, nCalls, replica, replayed>>
    /\ UNCHANGED serverVars

\* the turn in progress broadcasts an event; the session's turn starts after
\* the client's first connection was bound to the session
LinkBroadcast(payload) ==
    /\ wsSession["w1"] = "s1"
    /\ Len(appended["s1"]) < MaxE2EEvents
    /\ SetSV(broadcastChat(SV, "s1", payload, now))
    /\ Carry
    /\ UNCHANGED <<now, activeProcesses, procs, usedIds, nOps, nSys>>
    /\ UNCHANGED <<status, wsRef, reconnectAttempts, reconnectTimeoutRef, sockets,
                   timers, up, folded, exhausted, callerDisconnected, nCalls, reducerVars>>

\* createWebSocketHandler().close: the server sees the connection end
LinkServerClose(k) ==
    /\ sockets[k].readyState # "unused"
    /\ Unregister(ConnOf(k))
    /\ UNCHANGED <<connVars, reducerVars>>

\* ws.onclose: the client sees the connection end
LinkClientClose(k) ==
    /\ SocketClose(k, FALSE)
    /\ UNCHANGED serverVars

\* the reconnect timer fires
LinkTimerFire(t) ==
    /\ TimerFire(t)
    /\ OnlyLinks
    /\ UNCHANGED serverVars

\* React renders the component
LinkRender ==
    /\ client.dirty
    /\ client' = render(client)
    /\ UNCHANGED <<serverVars, connVars, replica, replayed>>

InitServer ==
    /\ connState = [w \in Conns |-> "new"]
    /\ wsSession = [w \in Conns |-> None]
    /\ sessionBuffers = EmptyMap
    /\ sessionSeqs = EmptyMap
    /\ chatStates = EmptyMap
    /\ globalSeq = 0
    /\ sent = NoneSent
    /\ now = 0
    /\ activeProcesses = EmptyMap
    /\ procs = [p \in ProcIds |-> NoProc]
    /\ appended = [sid \in AllIds |-> << >>]
    /\ sinceReset = [sid \in AllIds |-> << >>]
    /\ usedIds = {}
    /\ nOps = 0
    /\ nSys = 0

Init == InitServer /\ InitClassifier /\ InitReducer(FALSE) /\ InitConn

\* websocket.ts on its own: its exported operations in any order
NextWs ==
    \/ \E w \in WsConns : Register(w)
          /\ UNCHANGED nonServerVars
    \/ \E w \in WsConns : Unregister(w)
          /\ UNCHANGED nonServerVars
    \/ \E w \in WsConns, sid \in SessionIds : Subscribe(w, sid)
          /\ UNCHANGED nonServerVars
    \/ \E w \in WsConns, sid \in SessionIds \cup {None}, k \in {NoSeq} \cup 0..MaxEvents :
          CatchUp(w, sid, k)
          /\ UNCHANGED nonServerVars
    \/ \E sid \in SessionIds, payload \in WsPayloads : BroadcastChat(sid, payload)
          /\ UNCHANGED nonServerVars
    \/ \E sid \in SessionIds : ResetChatState(sid)
          /\ UNCHANGED nonServerVars
    \/ Tick
          /\ UNCHANGED nonServerVars
    \/ Sweep
          /\ UNCHANGED nonServerVars

SpecWs == Init /\ [][NextWs]_vars

\* index.ts over websocket.ts: requests of a client and the life of the host
\* processes they start
Next ==
    \/ \E w \in SrvConns : Register(w)
          /\ UNCHANGED nonServerVars
    \/ \E w \in SrvConns : Unregister(w)
          /\ UNCHANGED nonServerVars
    \/ \E w \in SrvConns, sid \in SessionIds : Subscribe(w, sid)
          /\ UNCHANGED nonServerVars
    \/ \E w \in SrvConns, prov \in ProvIds, p \in ProcIds : HandleChat(w, prov, p)
          /\ UNCHANGED nonServerVars
    \/ \E w \in SrvConns : HandleCancel(w)
          /\ UNCHANGED nonServerVars
    \/ \E p \in ProcIds, sid \in SessionIds : ProcInit(p, sid)
          /\ UNCHANGED nonServerVars
    \/ \E p \in ProcIds, payload \in ServerPayloads : ProcEvent(p, payload)
          /\ UNCHANGED nonServerVars
    \/ \E p \in ProcIds : ProcAbortedRead(p)
          /\ UNCHANGED nonServerVars
    \/ \E p \in ProcIds, last \in ServerPayloads \cup {NoPayload} : ProcStreamEnd(p, last)
          /\ UNCHANGED nonServerVars
    \/ \E p \in ProcIds : ThinkingTimer(p)
          /\ UNCHANGED nonServerVars
    \/ \E p \in ProcIds, exitCode \in {0, 1} : ProcExit(p, exitCode)
          /\ UNCHANGED nonServerVars
    \/ \E p \in ProcIds : ProcStderr(p)
          /\ UNCHANGED nonServerVars

Spec == Init /\ [][Next]_vars

\* websocket.ts: a long run of broadcasts to one session, no sweep
NextTrim ==
    \E payload \in WsPayloads : AppendEvent("s1", payload) /\ UNCHANGED nonServerVars

SpecTrim == Init /\ [][NextTrim]_vars

\* useClaude.ts: the reducer fed one session's events live, and a second
\* instance fed the same events by replay
InitClient ==
    InitServer /\ InitClassifier /\ InitConn /\ \E batched \in BOOLEAN : InitReducer(batched)

NextReducer ==
    \/ TurnStart /\ UNCHANGED <<classifierVars, connVars>>
    \/ \E payload \in FoldPayloads : Deliver(payload) /\ UNCHANGED <<classifierVars, connVars>>
    \/ Render /\ UNCHANGED <<classifierVars, connVars>>
    \/ Replay /\ UNCHANGED <<classifierVars, connVars>>
    \/ RenderReplica /\ UNCHANGED <<classifierVars, connVars>>

SpecReducer == InitClient /\ [][NextReducer]_vars

\* useClaude.ts: the connection state machine, against sockets that open or
\* fail at any time
NextConn ==
    \/ Connect /\ UNCHANGED <<serverVars, classifierVars>>
    \/ Disconnect /\ UNCHANGED <<serverVars, classifierVars>>
    \/ \E k \in SockIds : SocketOpen(k) /\ UNCHANGED <<serverVars, classifierVars>>
    \/ \E k \in SockIds, failed \in BOOLEAN :
          SocketClose(k, failed) /\ UNCHANGED <<serverVars, classifierVars>>
    \/ \E t \in TimerIds : TimerFire(t) /\ UNCHANGED <<serverVars, classifierVars>>

SpecConn == InitClient /\ [][NextConn]_vars

\* a client with a session id, its connections to the server, and a turn of
\* that session
NextE2E ==
    \/ LinkConnect /\ UNCHANGED classifierVars
    \/ \E k \in Links : LinkAccept(k) /\ UNCHANGED classifierVars
    \/ \E k \in Links : LinkOpen(k) /\ UNCHANGED classifierVars
    \/ \E k \in Links : LinkServerReceive(k) /\ UNCHANGED classifierVars
    \/ \E k \in Links : LinkClientReceive(k) /\ UNCHANGED classifierVars
    \/ \E payload \in LinkPayloads : LinkBroadcast(payload) /\ UNCHANGED classifierVars
    \/ \E k \in Links : LinkServerClose(k) /\ UNCHANGED classifierVars
    \/ \E k \in Links : LinkClientClose(k) /\ UNCHANGED classifierVars
    \/ \E t \in TimerIds : LinkTimerFire(t) /\ UNCHANGED classifierVars
    \/ LinkRender /\ UNCHANGED classifierVars

SpecE2E == InitClient /\ [][NextE2E]_vars

\* claude.ts on its own: one classifier instance fed any records
NextClassifier ==
    \E event \in Records : ProcessEvent(event) /\ UNCHANGED <<serverVars, reducerVars, connVars>>

SpecClassifier == Init /\ [][NextClassifier]_vars

\* useClaude.ts: the connection of a client that learns its session id from
\* the server.  The mount effect is the only caller of connect(), so every
\* socket after the first is created by a reconnect timer.
MountConnect ==
    /\ nCalls = 0
    /\ Connect

\* ws.onmessage: a snapshot of session sid arrives on an open socket (the
\* server sends one when it binds the connection to a session it has a state
\* for, as handleChat does from the second turn on)
SnapshotArrives(k, sid) ==
    /\ sockets[k].readyState = "open"
    /\ Len(client.queue) < MaxPending
    /\ client' = handleMessage(client,
                    SnapshotMsg(sid, 1, 0, FALSE, << >>, IdleState, 0))
    /\ UNCHANGED <<connVars, replica, replayed>>

\* React renders the component
SessionRender ==
    /\ client.dirty
    /\ client' = render(client)
    /\ UNCHANGED <<connVars, replica, replayed>>

\* the hook is mounted with or without a sessionId option
InitSession ==
    /\ InitServer /\ InitClassifier /\ InitConn
    /\ \E batched \in BOOLEAN, sid \in {None, "s1"} :
          /\ client = Client0(batched, sid)
          /\ replica = Client0(batched, sid)
    /\ replayed = FALSE

NextSession ==
    \/ MountConnect /\ UNCHANGED <<serverVars, classifierVars>>
    \/ \E k \in SockIds : SocketOpen(k) /\ UNCHANGED <<serverVars, classifierVars>>
    \/ \E k \in SockIds, failed \in BOOLEAN :
          SocketClose(k, failed) /\ UNCHANGED <<serverVars, classifierVars>>
    \/ \E t \in TimerIds : TimerFire(t) /\ UNCHANGED <<serverVars, classifierVars>>
    \/ \E k \in SockIds, sid \in SessionIds :
          SnapshotArrives(k, sid) /\ UNCHANGED <<serverVars, classifierVars>>
    \/ SessionRender /\ UNCHANGED <<serverVars, classifierVars>>

SpecSession == InitSession /\ [][NextSession]_vars

\* websocket.ts: two subscribers that bind and rebind while events are
\* broadcast
\* handleClientMessage: system / subscribe, any number of times
Rebind(w, sid) ==
    /\ connState[w] = "open"
    /\ globalSeq < MaxFanSeq
    /\ SetSV(subscribeToSession(SV, w, sid, now))
    /\ usedIds' = usedIds \cup {sid}
    /\ UNCHANGED <<now, activeProcesses, procs, nOps, nSys>>

NextFan ==
    \/ \E w \in Conns : Register(w) /\ UNCHANGED nonServerVars
    \/ \E w \in Conns : Unregister(w) /\ UNCHANGED nonServerVars
    \/ \E w \in Conns, sid \in SessionIds : Rebind(w, sid) /\ UNCHANGED nonServerVars
    \/ \E sid \in SessionIds, payload \in WsPayloads :
          BroadcastChat(sid, payload) /\ UNCHANGED nonServerVars

SpecFan == Init /\ [][NextFan]_vars

\* claude.ts: one parseClaudeStream call, fed any chunks and aborted at any time
NextParser ==
    \/ \E chunk \in Chunks : ReadChunk(chunk) /\ UNCHANGED <<serverVars, reducerVars, connVars>>
    \/ StreamDone /\ UNCHANGED <<serverVars, reducerVars, connVars>>
    \/ SetAborted /\ UNCHANGED <<serverVars, reducerVars, connVars>>

SpecParser == Init /\ [][NextParser]_vars

\* websocket.ts: one session's derived state under every kind of event, resets,
\* the passing of time and the sweep
StatePayloads ==
    {Token(<<"a">>), ToolStart(StartTool("t1")), ToolEnd(EndTool("t1", "Read")),
     ToolEnd(EndTool("t2", "Read")), TodoUpdate("todos-1"), Thinking, Complete,
     ErrorP("failed")}

\* broadcastToken / broadcastToolStart / ... / broadcastError for session s1
StateEvent(payload) ==
    /\ Len(appended["s1"]) < MaxStateEvents
    /\ SetSV(broadcastChat(SV, "s1", payload, now))
    /\ UNCHANGED <<now, activeProcesses, procs, usedIds, nOps, nSys>>

NextState ==
    \/ \E payload \in StatePayloads : StateEvent(payload) /\ UNCHANGED nonServerVars
    \/ ResetChatState("s1") /\ UNCHANGED nonServerVars
    \/ Tick /\ UNCHANGED nonServerVars
    \/ Sweep /\ UNCHANGED nonServerVars

SpecState == Init /\ [][NextState]_vars

\* useClaude.ts: the reducer fed the events of one well-formed turn: no tool
\* id is started twice, a tool ends once and after its start, and complete or
\* error is the last event
BlockPayloads ==
    {Token(<<"a">>), Token(<<" ">>), ToolStart(StartTool("t1")),
     ToolStart(StartTool("t2")), ToolEnd(EndTool("t1", "Read")),
     ToolEnd(EndTool("t2", "Read")), Complete, ErrorP("failed")}

Delivered(action, id) ==
    \E i \in 1..Len(appended["s1"]) :
        /\ appended["s1"][i].payload.action = action
        /\ appended["s1"][i].payload.tool.id = id
TurnOver ==
    /\ appended["s1"] # << >>
    /\ Last(appended["s1"]).payload.action \in {"complete", "error"}

\* the server broadcasts the next event of the turn and the socket delivers it
DeliverTurn(payload) ==
    /\ ~TurnOver
    /\ payload.action = "tool_start" => ~Delivered("tool_start", payload.tool.id)
    /\ payload.action = "tool_end" =>
          /\ Delivered("tool_start", payload.tool.id)
          /\ ~Delivered("tool_end", payload.tool.id)
    /\ Deliver(payload)

NextBlocks ==
    \/ TurnStart /\ UNCHANGED <<classifierVars, connVars>>
    \/ \E payload \in BlockPayloads :
          DeliverTurn(payload) /\ UNCHANGED <<classifierVars, connVars>>
    \/ Render /\ UNCHANGED <<classifierVars, connVars>>

SpecBlocks == InitClient /\ [][NextBlocks]_vars

\* claude.ts: one parseClaudeStream call at the level of characters.  The
\* text of a record is two characters, so that a read may end inside it.
NL == "\n"
ByteRecords == {BlockStart("t1", "Read"), User(<<ToolResult("t1")>>)}
RecordText(r) ==
    IF r = BlockStart("t1", "Read") THEN <<"{S", "S}">> ELSE <<"{U", "U}">>
Alphabet == {NL, " ", "{S", "S}", "{U", "U}"}
Streams == UNION {[1..n -> Alphabet] : n \in 0..MaxStream}

\* String.prototype.trim
RECURSIVE trimStart(_)
trimStart(text) ==
    IF text # << >> /\ Head(text) \in Whitespace THEN trimStart(Tail(text))
    ELSE text
RECURSIVE trimEnd(_)
trimEnd(text) ==
    IF text # << >> /\ Last(text) \in Whitespace
    THEN trimEnd(SubSeq(text, 1, Len(text) - 1))
    ELSE text
trim(text) == trimEnd(trimStart(text))

\* buffer.split('\n')
RECURSIVE split(_)
split(text) ==
    IF \E i \in 1..Len(text) : text[i] = NL
    THEN LET i == CHOOSE j \in 1..Len(text) :
                     text[j] = NL /\ \A k \in 1..(j - 1) : text[k] # NL
         IN <<SubSeq(text, 1, i - 1)>> \o split(SubSeq(text, i + 1, Len(text)))
    ELSE <<text>>

\* what "!line.trim()" and JSON.parse make of a line: nothing, a record, or
\* text that is not JSON
jsonLine(text) ==
    IF trim(text) = << >> THEN << >>
    ELSE IF \E r \in ByteRecords : RecordText(r) = trim(text)
         THEN <<CHOOSE r \in ByteRecords : RecordText(r) = trim(text)>>
         ELSE <<Malformed>>

\* the loop over the complete lines of one read
RECURSIVE classifyLines(_, _)
classifyLines(o, texts) ==
    IF texts = << >> THEN o
    ELSE LET r == parseLine(jsonLine(Head(texts)), o.tools)
         IN classifyLines(Out(r.tools, o.out \o r.out), Tail(texts))

replaceBuffer(buffer, chunk) == chunk
\* buffer += decoder.decode(value, { stream: true })
appendChunk(buffer, chunk) == buffer \o chunk

\* parseClaudeStream: reader.read() returns the next n characters
ReadBytes(n) ==
    /\ parserState = "reading"
    /\ n \in 1..Len(unread)
    /\ nRecords' = nRecords + 1
    /\ unread' = SubSeq(unread, n + 1, Len(unread))
    /\ IF isAborted
       THEN /\ emitted' = Append(emitted, CancelError)
            /\ parserState' = "cancelled"
            /\ UNCHANGED <<activeTools, streamBuffer, lines>>
       ELSE LET parts == split(appendChunk(streamBuffer, SubSeq(unread, 1, n)))
                whole == SubSeq(parts, 1, Len(parts) - 1)
                r == classifyLines(Out(activeTools, << >>), whole)
            IN /\ activeTools' = r.tools
               /\ emitted' = emitted \o r.out
               /\ lines' = lines \o [i \in 1..Len(whole) |-> jsonLine(whole[i])]
               /\ streamBuffer' = Last(parts)
               /\ UNCHANGED parserState
    /\ UNCHANGED isAborted

\* parseClaudeStream: reader.read() returns done, and the remaining buffer
\* is processed
BytesDone ==
    /\ parserState = "reading"
    /\ unread = << >>
    /\ parserState' = "done"
    /\ LET r == parseLine(jsonLine(streamBuffer), activeTools)
       IN /\ activeTools' = r.tools
          /\ emitted' = emitted \o r.out
          /\ lines' = IF trim(streamBuffer) # << >>
                      THEN Append(lines, jsonLine(streamBuffer)) ELSE lines
    /\ UNCHANGED <<nRecords, streamBuffer, unread, isAborted>>

InitChunks ==
    /\ InitServer /\ InitReducer(FALSE) /\ InitConn
    /\ activeTools = EmptyMap
    /\ emitted = << >>
    /\ nRecords = 0
    /\ streamBuffer = << >>
    /\ unread \in Streams
    /\ isAborted = FALSE
    /\ parserState = "reading"
    /\ lines = << >>

NextChunks ==
    \/ \E n \in 1..MaxStream :
          ReadBytes(n) /\ UNCHANGED <<serverVars, reducerVars, connVars>>
    \/ BytesDone /\ UNCHANGED <<serverVars, reducerVars, connVars>>

SpecChunks == InitChunks /\ [][NextChunks]_vars

\* websocket.ts: subscribers that come, go and rebind during a long run of
\* events of one session, with events of a second session at its start
NextFanTrim ==
    \/ \E w \in Conns : Register(w) /\ UNCHANGED nonServerVars
    \/ \E w \in Conns : Unregister(w) /\ UNCHANGED nonServerVars
    \/ \E w \in Conns : Rebind(w, "s1") /\ UNCHANGED nonServerVars
    \/ AppendEvent("s1", Token(<<"a">>)) /\ UNCHANGED nonServerVars
    \/ BroadcastChat("s2", Token(<<"a">>)) /\ UNCHANGED nonServerVars

SpecFanTrim == Init /\ [][NextFanTrim]_vars

\* useClaude.ts and handleChat: several turns of one session on one
\* connection.  A turn's events end with its complete.
TurnPayloads ==
    {ToolStart(StartTool("t1")), ToolStart(StartTool("t2")),
     ToolEnd(EndTool("t1", "Read")), ToolEnd(EndTool("t2", "Read")), Complete}

\* ws.onmessage, for each of the messages in turn
RECURSIVE handleMessages(_, _)
handleMessages(c, msgs) ==
    IF msgs = << >> THEN c
    ELSE handleMessages(handleMessage(c, Head(msgs)), Tail(msgs))

\* the session's turn is in progress on the server
Streaming(sid) == Has(chatStates, sid) /\ chatStates[sid].status = "streaming"
InTurn(action, id) ==
    \E i \in 1..Len(sinceReset["s1"]) :
        /\ sinceReset["s1"][i].action = action
        /\ sinceReset["s1"][i].tool.id = id

\* send() once the last turn is over, handleChat on the server up to the
\* spawn, and ws.onmessage for what handleChat sent
TurnSend ==
    /\ connState["w1"] = "open"
    /\ ~client.isStreamingRef
    /\ ~Streaming("s1")
    /\ client.nextId < 2 * MaxTurns
    /\ LET s == resetChatState(subscribeToSession(SV, "w1", "s1", now), "s1")
       IN /\ SetSV(s)
          /\ client' = handleMessages(send(client), s.sent["w1"])
    /\ UNCHANGED <<now, activeProcesses, procs, usedIds, nOps, nSys, replica,
                   replayed>>

\* the server broadcasts the next event of the turn in progress and the
\* socket delivers it; a tool id is used by one turn only
TurnEvent(payload) ==
    /\ Streaming("s1")
    /\ payload.action = "tool_start" => ~Delivered("tool_start", payload.tool.id)
    /\ payload.action = "tool_end" =>
          /\ InTurn("tool_start", payload.tool.id)
          /\ ~InTurn("tool_end", payload.tool.id)
    /\ Deliver(payload)

NextTurns ==
    \/ Register("w1") /\ UNCHANGED nonServerVars
    \/ TurnSend /\ UNCHANGED <<classifierVars, connVars>>
    \/ \E payload \in TurnPayloads :
          TurnEvent(payload) /\ UNCHANGED <<classifierVars, connVars>>
    \/ Render /\ UNCHANGED <<classifierVars, connVars>>

SpecTurns == InitClient /\ [][NextTurns]_vars

\* client and server, end to end, with a turn: the client sends a message,
\* the server spawns the host process, and the connection may be lost and
\* made again at any time
SendMsg(sid) == [type |-> "chat", action |-> "send", sessionId |-> sid]

\* send() on the open socket
LinkSend(k) ==
    /\ wsRef = k
    /\ sockets[k].readyState = "open"
    /\ ~client.isStreamingRef
    /\ client.nextId < 2 * MaxSends
    /\ client' = send(client)
    /\ up' = [up EXCEPT ![k] = Append(@, SendMsg(client.sessionId))]
    /\ UNCHANGED <<status, wsRef, reconnectAttempts, reconnectTimeoutRef, sockets,
                   timers, down, folded, exhausted, callerDisconnected, nCalls,
                   replica, replayed>>
    /\ UNCHANGED serverVars

\* handleClientMessage for the client's subscribe request
LinkServerSubscribe(k) ==
    /\ up[k] # << >>
    /\ Head(up[k]).type = "system"
    /\ LinkServerReceive(k)

\* handleClientMessage for the client's send request: handleChat
LinkServerChat(k, prov, p) ==
    /\ up[k] # << >>
    /\ Head(up[k]).type = "chat"
    /\ HandleChat(ConnOf(k), prov, p)
    /\ up' = [up EXCEPT ![k] = Tail(@)]
    /\ Carry
    /\ UNCHANGED <<status, wsRef, reconnectAttempts, reconnectTimeoutRef, sockets,
                   timers, folded, exhausted, callerDisconnected, nCalls, reducerVars>>

\* a step of the host process's handleChat call, and what it broadcasts
\* travels to the client
LinkProc(step) ==
    /\ step
    /\ Carry
    /\ UNCHANGED <<status, wsRef, reconnectAttempts, reconnectTimeoutRef, sockets,
                   timers, up, folded, exhausted, callerDisconnected, nCalls, reducerVars>>

\* the hook is mounted with or without a sessionId option
InitResume ==
    /\ InitServer /\ InitClassifier /\ InitConn
    /\ \E batched \in BOOLEAN, sid \in {None, "s1"} :
          /\ client = Client0(batched, sid)
          /\ replica = Client0(batched, sid)
    /\ replayed = FALSE

\* the steps the server, the host process, the sockets, the timers and React
\* take by themselves
ResumeSystem ==
    \/ \E k \in Links : LinkAccept(k) /\ UNCHANGED classifierVars
    \/ \E k \in Links : LinkOpen(k) /\ UNCHANGED classifierVars
    \/ \E k \in Links : LinkServerSubscribe(k) /\ UNCHANGED classifierVars
    \/ \E k \in Links, prov \in ProvIds, p \in ProcIds :
          LinkServerChat(k, prov, p) /\ UNCHANGED classifierVars
    \/ \E k \in Links : LinkClientReceive(k) /\ UNCHANGED classifierVars
    \/ \E p \in ProcIds, sid \in SessionIds :
          LinkProc(ProcInit(p, sid)) /\ UNCHANGED classifierVars
    \/ \E p \in ProcIds :
          LinkProc(ProcEvent(p, Token(<<"a">>))) /\ UNCHANGED classifierVars
    \/ \E p \in ProcIds :
          LinkProc(ProcStreamEnd(p, NoPayload)) /\ UNCHANGED classifierVars
    \/ \E p \in ProcIds, exitCode \in {0, 1} :
          LinkProc(ProcExit(p, exitCode)) /\ UNCHANGED classifierVars
    \/ \E p \in ProcIds : LinkProc(ProcStderr(p)) /\ UNCHANGED classifierVars
    \/ \E t \in TimerIds : LinkTimerFire(t) /\ UNCHANGED classifierVars
    \/ LinkRender /\ UNCHANGED classifierVars

NextResume ==
    \/ LinkConnect /\ UNCHANGED classifierVars
    \/ \E k \in Links : LinkSend(k) /\ UNCHANGED classifierVars
    \/ \E k \in Links : LinkServerClose(k) /\ UNCHANGED classifierVars
    \/ \E k \in Links : LinkClientClose(k) /\ UNCHANGED classifierVars
    \/ ResumeSystem

SpecResume == InitResume /\ [][NextResume]_vars
\* the same, where no step the system can take is put off forever
FairResume == SpecResume /\ WF_vars(ResumeSystem)

\* ------------------------------------------------------------------ claims
StrictlyIncreasing(q) == \A i, j \in 1..Len(q) : i < j => q[i] < q[j]

\* C1: the sequence numbers assigned to the events of one session id are
\* strictly increasing, over broadcasts, subscribe and catch-up requests,
\* resets and sweeps: none is assigned twice, none decreases.
C1_SeqStrictlyIncreasing ==
    \A sid \in AllIds : StrictlyIncreasing(SeqNums(appended[sid]))

\* a host process that has been spawned and has not exited
Live(p) == procs[p].pstate \in {"reading", "exiting"}
LiveFor(sid) ==
    {p \in ProcIds : Live(p) /\ procs[p].sessionId = sid /\ ~procs[p].aborted}

\* C4: a send for a session that has a live, not aborted host process
\* broadcasts an error event to that session and spawns no host process.
C4_SecondSendRejected ==
    [][\A w \in SrvConns, prov \in ProvIds, p \in ProcIds :
         LET sid == IF wsSession[w] # None THEN wsSession[w] ELSE prov IN
         (HandleChat(w, prov, p) /\ LiveFor(sid) # {}) =>
             /\ \A q \in ProcIds : procs[q].pstate = "unused" =>
                                      procs'[q].pstate = "unused"
             /\ Len(appended'[sid]) = Len(appended[sid]) + 1
             /\ Last(appended'[sid]).payload.action = "error"]_vars

\* C5: at most one spawned, unfinished, not aborted host process per session id.
C5_OneLiveProcessPerSession ==
    \A sid \in AllIds : Cardinality(LiveFor(sid)) <= 1

\* the client is connected and bound to its session, and nothing is in flight
Settled ==
    /\ wsRef # NoSocket
    /\ sockets[wsRef].readyState = "open"
    /\ connState[ConnOf(wsRef)] = "open"
    /\ wsSession[ConnOf(wsRef)] = "s1"
    /\ up[wsRef] = << >>
    /\ down[wsRef] = << >>

\* C2: a client that lost its connection during a turn and has reconnected,
\* with all of the session's events still buffered, has folded exactly the
\* session's events, in order, each once: none broadcast during the outage is
\* missing and none is applied twice.
C2_ResumeWithoutGaps ==
    Settled => folded = SeqNums(appended["s1"])

\* the tool-start callbacks invoked for tool id
Starts(id) == {i \in 1..Len(emitted) : emitted[i].ev = "tool-start" /\ emitted[i].id = id}

\* C3: over any sequence of records fed to one classifier instance, a
\* tool-start for a given tool id is emitted at most once.
C3_ToolStartAtMostOnce ==
    \A id \in ToolIds : Cardinality(Starts(id)) <= 1

\* the content blocks of a reducer, sealed and finalized: types and tool ids
BlockShape(b) == [type |-> b.type, ids |-> [i \in 1..Len(b.tools) |-> b.tools[i].id]]
ShapeOf(blocks) == [i \in 1..Len(blocks) |-> BlockShape(blocks[i])]
Transcript(c) ==
    <<[i \in 1..Len(c.messages) |-> ShapeOf(c.messages[i].contentBlocks)],
      ShapeOf(c.contentBlocks)>>

\* C6: a reducer fed a session's events as the events of one snapshot ends
\* with the same content blocks (types, order, tool ids per group) as a
\* reducer fed the same events one by one as live messages.
C6_ReplayEqualsLive ==
    (replayed /\ ~client.dirty /\ ~replica.dirty) =>
        Transcript(replica) = Transcript(client)

\* the events of the turn of C7, after its init: text, one tool, text, complete
FixedTurn ==
    <<Token(<<"a">>), ToolStart(StartTool("t1")), ToolEnd(EndTool("t1", "Read")),
      Token(<<"a">>), Complete>>
PayloadsOf(msgs) == [i \in 1..Len(msgs) |-> msgs[i].payload]

\* C7: for the turn init, text T1, tool-start t, tool-end t with a summary,
\* text T2, complete, the reducer's finalized entry has exactly the blocks
\* text(T1), tool_group(t with the summary), text(T2), and the server's
\* derived state has status complete and content T1 T2.
C7_FixedTurnBlocks ==
    (PayloadsOf(appended["s1"]) = FixedTurn /\ ~client.dirty) =>
        /\ client.messages # << >>
        /\ Last(client.messages).role = "assistant"
        /\ ~Last(client.messages).isStreaming
        /\ Last(client.messages).contentBlocks =
              <<TextOf(<<"a">>),
                GroupOf(<<MergeTool(StartTool("t1"), EndTool("t1", "Read"))>>),
                TextOf(<<"a">>)>>
        /\ chatStates["s1"].status = "complete"
        /\ chatStates["s1"].accumulatedContent = <<"a", "a">>

\* the sockets created so far
Created(socks) == {k \in SockIds : socks[k].readyState # "unused"}

\* C10: a close makes the status 'reconnecting' only while the attempt counter
\* is below maxReconnectAttempts; a close that finds the attempts used up
\* leaves the status 'disconnected' and sets no timer, and after it no
\* connection attempt is made until the caller calls connect().
C10_ReconnectCapped ==
    [][/\ \A k \in SockIds, failed \in BOOLEAN :
             SocketClose(k, failed) =>
                /\ status' = "reconnecting" <=>
                      reconnectAttempts < maxReconnectAttempts
                /\ reconnectAttempts >= maxReconnectAttempts =>
                      status' = "disconnected" /\ timers' = timers
       /\ (exhausted /\ exhausted') => Created(sockets') = Created(sockets)]_vars

\* the derived state after folding payloads, in order, into st
RECURSIVE FoldAll(_, _)
FoldAll(st, msgs) ==
    IF msgs = << >> THEN st
    ELSE IF Len(msgs) = 1 THEN foldPayload(st, msgs[1].payload)
    ELSE LET half == Len(msgs) \div 2
             first == FoldAll(st, SubSeq(msgs, 1, half))
         IN \* the first half is folded to a value before the second half starts
            IF first = first
            THEN FoldAll(first, SubSeq(msgs, half + 1, Len(msgs)))
            ELSE first
Kept(n) == IF n < 100 THEN n ELSE 100

\* C8: after n events were appended to a session with no sweep in between,
\* its buffer holds exactly the most recent min(n, 100) of them, oldest first,
\* and its derived state is the fold of all n events.
C8_BufferHoldsMostRecent ==
    \A sid \in SessionIds :
        LET n == Len(appended[sid]) IN
        n > 0 =>
            /\ sessionBuffers[sid] = SubSeq(appended[sid], n - Kept(n) + 1, n)
            /\ chatStates[sid] = FoldAll(IdleState, appended[sid])

\* more than 100 events appended and the buffer trimmed to 100
C8_Witness ==
    \E sid \in SessionIds :
        /\ Len(appended[sid]) > 100
        /\ Len(sessionBuffers[sid]) = 100
        /\ sessionBuffers[sid][1].seq = Len(appended[sid]) - 99

\* the events a catch-up from lastSeq must return, by position in the buffer
RECURSIVE After(_, _)
After(buffer, k) ==
    IF buffer = << >> THEN << >>
    ELSE IF Head(buffer).seq > k
         THEN <<Head(buffer)>> \o After(Tail(buffer), k)
         ELSE After(Tail(buffer), k)

\* C9: a catch_up for session sid with lastSeq k is answered with one snapshot
\* whose events are the buffered events of sid with sequence > k, in buffer
\* order, with the current derived state and sequence number; a missing
\* lastSeq counts as 0.
C9_CatchUpReturnsMissed ==
    [][\A w \in WsConns, sid \in SessionIds, k \in {NoSeq} \cup 0..MaxEvents :
         CatchUp(w, sid, k) =>
            /\ Len(sent'[w]) = 1
            /\ sent'[w][1].type = "system"
            /\ sent'[w][1].payload.action = "snapshot"
            /\ sent'[w][1].payload.sessionId = sid
            /\ sent'[w][1].payload.hasEvents
            /\ sent'[w][1].payload.events =
                  After(GetOr(sessionBuffers, sid, << >>), IF k = NoSeq THEN 0 ELSE k)
            /\ sent'[w][1].payload.chatState = GetOr(chatStates, sid, NoState)
            /\ sent'[w][1].payload.currentSeq = GetOr(sessionSeqs, sid, 0)
            /\ sessionBuffers' = sessionBuffers /\ chatStates' = chatStates]_vars

\* a catch-up answered with some, not all, of a buffer
C9_Witness ==
    \E w \in WsConns :
        /\ Len(sent[w]) = 1
        /\ sent[w][1].payload.action = "snapshot"
        /\ sent[w][1].payload.hasEvents
        /\ Len(sent[w][1].payload.events) >= 1
        /\ Len(sent[w][1].payload.events) <
              Len(sessionBuffers[sent[w][1].payload.sessionId])

\* C11: whenever a connection opens after a reconnect and the client knows a
\* session id, the first message the client sends on the new connection is a
\* subscribe request for its last known session id.  (Under SpecSession every
\* socket after the first is created by a reconnect timer.)
C11_ResubscribeLastKnown ==
    [][\A k \in SockIds \ {1} :
          (/\ sockets[k].readyState = "connecting"
           /\ sockets'[k].readyState = "open"
           /\ client.sessionId # None)
          => up'[k] = <<SubscribeMsg(client.sessionId)>>]_vars

\* C12: a cancel for a session with an active, not aborted host process marks
\* that process aborted and in the same step appends to the session an error
\* event with the message 'Request cancelled', sent to the session's
\* subscribers, after which the session's derived status is error; a cancel
\* for a session with no tracked process, or whose process is already
\* aborted, changes nothing and broadcasts nothing.
C12_CancelAbortsAndBroadcasts ==
    [][\A w \in SrvConns :
         LET sid == wsSession[w] IN
         HandleCancel(w) =>
            /\ LiveFor(sid) # {} =>
                  /\ \A p \in LiveFor(sid) : procs'[p].aborted
                  /\ Len(appended'[sid]) = Len(appended[sid]) + 1
                  /\ Last(appended'[sid]).payload = ErrorP("Request cancelled")
                  /\ sent'[w] = <<Last(appended'[sid])>>
                  /\ chatStates'[sid].status = "error"
            /\ ~inProgress(sid) =>
                  /\ procs' = procs
                  /\ appended' = appended
                  /\ chatStates' = chatStates
                  /\ sessionBuffers' = sessionBuffers
                  /\ sent' = NoneSent]_vars

\* the snapshot messages among msgs
Snapshots(msgs) ==
    SelectSeq(msgs, LAMBDA m : m.type = "system" /\ m.payload.action = "snapshot")
\* the snapshot that binding to sid delivers: the derived state, no events
StateOnly(m, sid, state, cur) ==
    /\ m.sessionId = sid
    /\ m.payload.sessionId = sid
    /\ ~m.payload.hasEvents
    /\ m.payload.events = << >>
    /\ m.payload.chatState = state
    /\ m.payload.currentSeq = cur
\* a step binds the open connection w to session sid: a subscribe request, a
\* send, or the session id revealed by the host process the send started
Binds(w, sid) ==
    \/ Subscribe(w, sid)
    \/ \E prov \in ProvIds, p \in ProcIds :
          /\ HandleChat(w, prov, p)
          /\ sid = IF wsSession[w] # None THEN wsSession[w] ELSE prov
    \/ \E p \in ProcIds :
          /\ ProcInit(p, sid)
          /\ procs[p].ws = w
          /\ sid # procs[p].effective
          /\ connState[w] = "open"

\* C13 as stated: every binding of a subscriber to a session delivers to it
\* one snapshot with the session's derived state and no events, also for a
\* session the server holds no record of.
C13_BindingSendsSnapshot ==
    [][\A w \in SrvConns, sid \in AllIds :
         Binds(w, sid) =>
            /\ wsSession'[w] = sid
            /\ Len(Snapshots(sent'[w])) = 1
            /\ sent'[w][1] = Snapshots(sent'[w])[1]]_vars

\* C13, amended: a binding of a subscriber to a session the server holds a
\* derived state for delivers to it, before anything else, one snapshot with
\* that state (as it is before the step), the session's current sequence
\* number and no events; a binding to a session without a derived state
\* delivers no snapshot.
C13_BindingSendsSnapshotIfState ==
    [][\A w \in SrvConns, sid \in AllIds :
         Binds(w, sid) =>
            /\ wsSession'[w] = sid
            /\ IF Has(chatStates, sid)
               THEN /\ Len(Snapshots(sent'[w])) = 1
                    /\ sent'[w][1] = Snapshots(sent'[w])[1]
                    /\ StateOnly(sent'[w][1], sid, chatStates[sid],
                                 GetOr(sessionSeqs, sid, 0))
                    /\ sent'[w][1].seq = globalSeq + 1
               ELSE Snapshots(sent'[w]) = << >>]_vars

\* a connection has just been bound to a session and sent its snapshot
C13_Witness ==
    \E w \in SrvConns :
        /\ wsSession[w] # None
        /\ Len(Snapshots(sent[w])) = 1
        /\ StateOnly(sent[w][1], wsSession[w], sent[w][1].payload.chatState,
                     GetOr(sessionSeqs, wsSession[w], 0))
        /\ sent[w][1].payload.chatState # NoState

\* C14: a chat event appended to session S is sent to exactly the live
\* subscribers whose current binding is S, and to no subscriber that is
\* unbound or bound to another session; a subscriber has one binding, so
\* whatever event it is sent is an event of the session it is bound to.
C14_FanOutToBoundOnly ==
    [][/\ \A sid \in SessionIds, payload \in WsPayloads :
             BroadcastChat(sid, payload) =>
                \A w \in Conns :
                   sent'[w] = IF connState[w] = "open" /\ wsSession[w] = sid
                              THEN <<Last(appended'[sid])>> ELSE << >>
       /\ \A w \in Conns : \A i \in 1..Len(sent'[w]) :
             sent'[w][i].type = "chat" => sent'[w][i].sessionId = wsSession'[w]]_vars

\* two live subscribers bound to different sessions that both have events,
\* and the last event went to one of them only
C14_Witness ==
    /\ connState = [w \in Conns |-> "open"]
    /\ wsSession["w1"] \in SessionIds
    /\ wsSession["w2"] \in SessionIds \ {wsSession["w1"]}
    /\ \A sid \in SessionIds : appended[sid] # << >>
    /\ sent["w1"] = <<Last(appended[wsSession["w1"]])>>
    /\ sent["w2"] = << >>

\* a line that is the text of one record processEvent has a branch for
Recognized(line) == Len(line) = 1 /\ line[1] \in ParserRecords \ {OtherRec}
\* a line that is malformed (not JSON, or not a record) or unrecognized
BadLine(line) == line # << >> /\ ~Recognized(line)
\* the classification of records, in order, by processEvent alone
RECURSIVE Classify(_, _)
Classify(o, recs) ==
    IF recs = << >> THEN o
    ELSE LET r == processEvent(Head(recs)[1], o.tools)
         IN Classify(Out(r.tools, o.out \o r.out), Tail(recs))

C16_AbortStopsClassifier ==
    [][isAborted =>
          /\ emitted' \in {emitted, Append(emitted, CancelError)}
          /\ (parserState = "reading" /\ parserState' # "reading") =>
                emitted' = Append(emitted, CancelError)]_vars

\* the tool-end events for tool id among out
EndsOf(out, id) == SelectSeq(out, LAMBDA e : e.ev = "tool-end" /\ e.id = id)
\* the tool-result blocks for tool id among blocks
ResultsOf(blocks, id) ==
    SelectSeq(blocks, LAMBDA b : b.type = "tool_result" /\ b.id = id)

Pending(tm) == {t \in TimerIds : tm[t].state = "pending"}

\* C18: disconnect(), called while connecting, connected or reconnecting,
\* sets the attempt counter to maxReconnectAttempts, and after it no
\* connection attempt is made until the caller calls connect().
C18_DisconnectSuppressesReconnect ==
    [][/\ (Disconnect /\ status \in {"connecting", "connected", "reconnecting"})
             => reconnectAttempts' = maxReconnectAttempts
       /\ (callerDisconnected /\ callerDisconnected')
             => Created(sockets') = Created(sockets)]_vars

\* C19: at most one reconnect timer is pending at any time, and a connection
\* attempt started by connect() leaves no reconnect timer pending.
C19_SingleReconnectTimer ==
    [][/\ Cardinality(Pending(timers')) <= 1
       /\ Created(sockets') # Created(sockets) => Pending(timers') = {}]_vars

\* C20: the client's last-seen sequence holds session sequence numbers only:
\* it is 0 or the sequence number of a chat event the client has folded,
\* never the global number of a system notice.
C20_LastSeqIsSessionSeq ==
    client.lastSeq \in {0} \cup {folded[i] : i \in 1..Len(folded)}

\* C21: a session's counter and derived state come into existence only in a
\* step that appends an event to the session; a sweep leaves every session
\* that keeps a counter or a derived state with a non-empty buffer; and a
\* sweep that keeps some events of a session keeps exactly the events younger
\* than the time-to-live and leaves its counter and derived state as they were.
HasRecord(seqs, states, sid) == Has(seqs, sid) \/ Has(states, sid)
C21_RecordLifecycle ==
    [][/\ \A sid \in AllIds :
             (HasRecord(sessionSeqs', chatStates', sid)
                 /\ ~HasRecord(sessionSeqs, chatStates, sid))
                => Len(appended'[sid]) > Len(appended[sid])
       /\ Sweep =>
             \A sid \in AllIds :
                /\ HasRecord(sessionSeqs', chatStates', sid)
                      => GetOr(sessionBuffers', sid, << >>) # << >>
                /\ Has(sessionBuffers', sid) =>
                      /\ sessionBuffers'[sid] = sweepKeep(sessionBuffers[sid], now)
                      /\ GetOr(sessionSeqs', sid, 0) = GetOr(sessionSeqs, sid, 0)
                      /\ GetOr(chatStates', sid, NoState)
                            = GetOr(chatStates, sid, NoState)]_vars

\* the fold of C22, step by step as the claim words it
ToolAt(tools, id) == {i \in 1..Len(tools) : tools[i].id = id}
FoldStep(st, p) ==
    CASE p.action = "token" ->
           [st EXCEPT !.accumulatedContent = @ \o p.content, !.status = "streaming"]
      [] p.action = "tool_start" ->
           [st EXCEPT !.tools = Append(@, p.tool), !.status = "streaming"]
      [] p.action = "tool_end" ->
           IF ToolAt(st.tools, p.tool.id) = {} THEN st
           ELSE LET i == CHOOSE k \in ToolAt(st.tools, p.tool.id) :
                             \A j \in ToolAt(st.tools, p.tool.id) : k <= j
                IN [st EXCEPT !.tools[i] = MergeTool(@, p.tool)]
      [] p.action = "todo_update" -> [st EXCEPT !.todos = p.todos]
      [] p.action = "complete" -> [st EXCEPT !.status = "complete"]
      [] p.action = "error" ->
           [st EXCEPT !.status = "error", !.errorMessage = p.error]
      [] OTHER -> st
RECURSIVE FoldSince(_, _)
FoldSince(st, payloads) ==
    IF payloads = << >> THEN st
    ELSE FoldSince(FoldStep(st, Head(payloads)), Tail(payloads))

\* C22: at every point the derived state of a session is the fold, in append
\* order, of all the events appended to it since its last reset (from the
\* state a reset stores, or from the idle state when there was no reset),
\* whether or not the events are still in the buffer; a session with events
\* since its last reset has a derived state.
C22_StateIsFoldSinceReset ==
    \A sid \in AllIds :
        /\ sinceReset[sid] # << >> => Has(chatStates, sid)
        /\ Has(chatStates, sid) =>
              chatStates[sid] \in {FoldSince(FreshState, sinceReset[sid]),
                                   FoldSince(IdleState, sinceReset[sid])}

\* the events appended to sid since its counter was created
SinceCreated(seqs, app, sid) ==
    SubSeq(app[sid], Len(app[sid]) - GetOr(seqs, sid, 0) + 1, Len(app[sid]))

\* C23: the k-th event appended to a session since its record was created
\* carries sequence number k, and a step that appends to one session leaves
\* the counter of every other session as it was (present or not, and its value).
C23_LiveNumbering ==
    [][\A sid \in AllIds :
          /\ GetOr(sessionSeqs', sid, 0) <= Len(appended'[sid])
          /\ \A k \in 1..GetOr(sessionSeqs', sid, 0) :
                SinceCreated(sessionSeqs', appended', sid)[k].seq = k
          /\ Len(appended'[sid]) > Len(appended[sid]) =>
                /\ Last(appended'[sid]).seq = GetOr(sessionSeqs, sid, 0) + 1
                /\ \A other \in AllIds \ {sid} :
                      /\ Has(sessionSeqs', other) = Has(sessionSeqs, other)
                      /\ GetOr(sessionSeqs', other, 0) = GetOr(sessionSeqs, other, 0)]_vars

\* two sessions numbered side by side: the second event of one after the
\* first event of the other
C23_Witness ==
    /\ Len(appended["s1"]) = 2 /\ Len(appended["s2"]) = 1
    /\ SeqNums(appended["s1"]) = <<1, 2>>
    /\ SeqNums(appended["s2"]) = <<1>>
    /\ appended["s1"][2].timestamp >= appended["s2"][1].timestamp
    /\ sessionSeqs["s1"] = 2 /\ sessionSeqs["s2"] = 1

\* the blocks of the turn: those sealed so far, or after complete those of
\* the finalized entry
TurnBlocks(c) ==
    IF ~TurnOver THEN c.contentBlocks
    ELSE IF c.messages # << >> /\ Last(c.messages).role = "assistant"
         THEN Last(c.messages).contentBlocks ELSE << >>
\* the position, among the events of the turn, of its n-th token (0: none)
TokenAt(n) ==
    LET ev == appended["s1"]
        toks(k) == Cardinality({j \in 1..k : ev[j].payload.action = "token"})
        at == {k \in 1..Len(ev) : ev[k].payload.action = "token" /\ toks(k) = n}
    IN IF at = {} THEN 0 ELSE CHOOSE k \in at : TRUE
RECURSIVE TextBefore(_, _)
TextBefore(blocks, i) ==
    IF i <= 1 THEN 0
    ELSE TextBefore(blocks, i - 1) + Len(blocks[i - 1].content)
\* the position of the earliest event that contributed to block i: the first
\* token of a text block, the first tool_start of a tool group (0: none)
FirstEvent(blocks, i) ==
    IF blocks[i].type = "text" THEN TokenAt(TextBefore(blocks, i) + 1)
    ELSE LET ev == appended["s1"]
             starts == {k \in 1..Len(ev) :
                          /\ ev[k].payload.action = "tool_start"
                          /\ \E t \in 1..Len(blocks[i].tools) :
                                blocks[i].tools[t].id = ev[k].payload.tool.id}
         IN IF starts = {} THEN 0
            ELSE CHOOSE k \in starts : \A j \in starts : k <= j

\* C24: in the blocks of a turn (once React has rendered, and unless the turn
\* ended in an error), a block whose earliest contributing event arrived
\* before that of another block comes before it.
C24_BlocksInArrivalOrder ==
    (~client.dirty /\ ~(TurnOver /\ Last(appended["s1"]).payload.action = "error")) =>
        LET blocks == TurnBlocks(client) IN
        \A i, j \in 1..Len(blocks) :
            i < j => FirstEvent(blocks, i) < FirstEvent(blocks, j)

\* text with a character that is not whitespace
Visible(text) == \E i \in 1..Len(text) : text[i] # " "
\* the effect of a tool_start on the sealed blocks and the pending text when
\* the pending text is sealed (seal) or left alone (~seal); the tool's group
\* is open afterwards, so its block comes after the text block
StartSeals(seal, t) ==
    /\ HasTool(client'.currentToolGroup, t)
    /\ IF seal
       THEN /\ client'.contentBlocks =
                  Append(client.contentBlocks, TextOf(client.pendingText))
            /\ client'.pendingText = NoText
       ELSE /\ client'.contentBlocks = client.contentBlocks
            /\ client'.pendingText = client.pendingText

\* C25 as stated: on every tool_start, pending text that is not empty, be it
\* only whitespace, is sealed into a text block before the tool group and the
\* accumulator is cleared; when it is empty no block is added.
C25_ToolStartSealsText ==
    [][\A t \in ToolIds :
          DeliverTurn(ToolStart(StartTool(t))) =>
              StartSeals(client.pendingText # NoText, t)]_vars

\* C25, amended: on every tool_start, pending text that has a character other
\* than whitespace is sealed into a text block before the tool group and the
\* accumulator is cleared; when it is empty or only whitespace no block is
\* added and the accumulator is left as it is.
C25_ToolStartSealsVisibleText ==
    [][\A t \in ToolIds :
          DeliverTurn(ToolStart(StartTool(t))) =>
              StartSeals(Visible(client.pendingText), t)]_vars

\* a tool_start has just sealed text that begins with whitespace
C25_Witness ==
    /\ appended["s1"] # << >>
    /\ Last(appended["s1"]).payload.action = "tool_start"
    /\ client.contentBlocks # << >>
    /\ Last(client.contentBlocks) = TextOf(<<" ", "a">>)
    /\ client.pendingText = NoText
    /\ client.currentToolGroup # << >>

\* the position of the tool_start or tool_end of a tool among the events of
\* the turn (0: not delivered)
EventAt(action, id) ==
    LET at == {i \in 1..Len(appended["s1"]) :
                 /\ appended["s1"][i].payload.action = action
                 /\ appended["s1"][i].payload.tool.id = id}
    IN IF at = {} THEN 0 ELSE CHOOSE i \in at : TRUE

\* C26: while a turn is in progress (and React has rendered): every tool of a
\* sealed tool_group block has finished; the open group, if any, has a tool
\* that is still active (the tool_end that leaves none active seals it); and
\* two tools in different blocks did not overlap: the one in the earlier block
\* ended before the other started.
C26_GroupSealedWhenAllDone ==
    (~client.dirty /\ ~TurnOver) =>
        LET blocks == client.contentBlocks
            group == client.currentToolGroup
        IN /\ \A i \in 1..Len(blocks) : \A k \in 1..Len(blocks[i].tools) :
                 Delivered("tool_end", blocks[i].tools[k].id)
           /\ group # << >> =>
                 \E k \in 1..Len(group) : ~Delivered("tool_end", group[k].id)
           /\ \A i, j \in 1..Len(blocks) : i < j =>
                 \A a \in 1..Len(blocks[i].tools), b \in 1..Len(blocks[j].tools) :
                    EventAt("tool_end", blocks[i].tools[a].id)
                       < EventAt("tool_start", blocks[j].tools[b].id)

\* the text of the tokens of the turn, in order
RECURSIVE TextOfTurn(_)
TextOfTurn(msgs) ==
    IF msgs = << >> THEN NoText
    ELSE (IF Head(msgs).payload.action = "token"
          THEN Head(msgs).payload.content ELSE NoText) \o TextOfTurn(Tail(msgs))
\* the text of the text blocks, in order
RECURSIVE TextIn(_)
TextIn(blocks) ==
    IF blocks = << >> THEN NoText ELSE Head(blocks).content \o TextIn(Tail(blocks))
\* a text without its whitespace
Shown(text) == SelectSeq(text, LAMBDA ch : ch # " ")
ToolsIn(blocks) ==
    UNION {{blocks[i].tools[k].id : k \in 1..Len(blocks[i].tools)} :
              i \in 1..Len(blocks)}

\* C27: once a turn has ended with complete or error (and React has
\* rendered), the per-turn accumulators are reset (pending text, tool group,
\* active and completed tools, streaming content and flag), no transcript
\* entry is marked streaming, and a turn that delivered text or tools has a
\* finalized assistant entry with the accumulated text as content, every
\* started tool in a tool_group block and the text, whitespace aside, in its
\* text blocks.
C27_TerminalFlushAndReset ==
    (TurnOver /\ ~client.dirty) =>
        LET text == TextOfTurn(appended["s1"])
            started == {id \in ToolIds : Delivered("tool_start", id)}
        IN /\ client.pendingText = NoText
           /\ client.currentToolGroup = << >>
           /\ client.contentBlocks = << >>
           /\ client.activeTools = << >>
           /\ client.completedTools = << >>
           /\ client.streamingContent = NoText
           /\ ~client.isStreaming /\ ~client.isStreamingRef
           /\ \A i \in 1..Len(client.messages) : ~client.messages[i].isStreaming
           /\ (text # NoText \/ started # {}) =>
                 /\ client.messages # << >>
                 /\ Last(client.messages).role = "assistant"
                 /\ Last(client.messages).content = text
                 /\ ToolsIn(Last(client.messages).contentBlocks) = started
                 /\ Shown(TextIn(Last(client.messages).contentBlocks)) = Shown(text)

\* the ids of the tool-result blocks of a record, in block order
ResultIds(blocks) ==
    LET results == SelectSeq(blocks, LAMBDA b : b.type = "tool_result")
    IN [k \in 1..Len(results) |-> results[k].id]

Revealed(p) == procs[p].inited /\ procs[p].detected # procs[p].effective
\* a step of p's handleChat call after its start: a callback, the thinking
\* timer, the end of the stream, the exit of the process
TurnStep(p) ==
    \/ \E payload \in ServerPayloads : ProcEvent(p, payload)
    \/ ProcAbortedRead(p)
    \/ \E last \in ServerPayloads \cup {NoPayload} : ProcStreamEnd(p, last)
    \/ ThinkingTimer(p)
    \/ \E exitCode \in {0, 1} : ProcExit(p, exitCode)
    \/ ProcStderr(p)
    \/ (~procs[p].aborted /\ procs'[p].aborted)
\* the step appended nothing, or one event, and that to session sid: numbered
\* by the counter of sid, put last in the buffer of sid and sent to the open
\* connections bound to sid
AppendsOnlyTo(sid) ==
    /\ \A other \in AllIds \ {sid} :
          /\ appended'[other] = appended[other]
          /\ GetOr(sessionBuffers', other, << >>) = GetOr(sessionBuffers, other, << >>)
          /\ GetOr(sessionSeqs', other, 0) = GetOr(sessionSeqs, other, 0)
    /\ appended'[sid] # appended[sid] =>
          LET msg == Last(appended'[sid]) IN
          /\ appended'[sid] = Append(appended[sid], msg)
          /\ msg.sessionId = sid
          /\ msg.seq = GetOr(sessionSeqs, sid, 0) + 1
          /\ sessionSeqs'[sid] = msg.seq
          /\ Last(sessionBuffers'[sid]) = msg
          /\ \A w \in Conns :
                (connState[w] = "open" /\ wsSession[w] = sid) => sent'[w] = <<msg>>

\* C29: when the init record of a turn reveals an id other than the one the
\* turn started under, the process-table entry moves to the revealed id and
\* the originating connection is bound to it; from then on every step of the
\* turn (the terminal event included) appends under the revealed id only, and
\* no key but the revealed id leads to the turn's process.
C29_RevealedIdIsCanonical ==
    [][\A p \in ProcIds :
          /\ \A sid \in SessionIds :
                (ProcInit(p, sid) /\ sid # procs[p].effective) =>
                   /\ wsSession'[procs[p].ws] = sid
                   /\ Has(activeProcesses', sid) /\ activeProcesses'[sid] = p
                   /\ ~Has(activeProcesses', procs[p].effective)
          /\ Revealed(p) =>
                /\ \A k \in DOMAIN activeProcesses' :
                      activeProcesses'[k] = p => k = procs[p].detected
                /\ TurnStep(p) => AppendsOnlyTo(procs[p].detected)]_vars

\* a turn that started under a provisional id has ended with its terminal
\* event under the revealed id
C29_Witness ==
    \E p \in ProcIds :
        /\ procs[p].pstate = "done"
        /\ procs[p].effective = "new-1" /\ procs[p].detected = "s1"
        /\ appended["new-1"] = << >>
        /\ Len(appended["s1"]) = 2
        /\ Last(appended["s1"]).payload = Complete
        /\ wsSession[procs[p].ws] = "s1"
        /\ sent[procs[p].ws] = <<Last(appended["s1"])>>

\* the reducer's record of tools and blocks
ToolView(c) ==
    <<c.activeTools, c.completedTools, c.currentToolGroup, c.contentBlocks>>

\* C30: within a turn, the delivery of a tool_start or tool_end event for an
\* id whose event of that kind was delivered before leaves the active tools,
\* the completed tools, the open tool group and the sealed blocks unchanged.
C30_ToolEventsIdempotent ==
    [][\A payload \in FoldPayloads :
          (/\ payload.action \in {"tool_start", "tool_end"}
           /\ Delivered(payload.action, payload.tool.id)
           /\ \A i \in 1..Len(appended["s1"]) :
                 appended["s1"][i].payload.action # "complete"
           /\ Deliver(payload)) =>
              ToolView(client') = ToolView(client)]_vars

\* the host processes spawned so far
Spawned == {p \in ProcIds : procs[p].pstate # "unused"}
\* the terminal events a turn broadcast: every complete, and every error
\* other than the rejection of a send
TurnTerminals(msgs) ==
    SelectSeq(msgs, LAMBDA m :
        \/ m.payload.action = "complete"
        \/ /\ m.payload.action = "error"
           /\ m.payload.error # "A request is already in progress")

\* C31: a turn broadcasts at most one terminal chat event (complete or
\* error): while one host process only has been spawned, the sessions
\* together hold at most one terminal event.
C31_OneTerminalPerTurn ==
    Cardinality(Spawned) <= 1 =>
        SumLen([sid \in AllIds |-> TurnTerminals(appended[sid])], AllIds) <= 1

\* C32: a send rejected because a turn is in progress leaves the session's
\* accumulated text, tool list and todo list as they were before it.
C32_RejectedSendKeepsState ==
    [][\A w \in SrvConns, prov \in ProvIds, p \in ProcIds :
         LET sid == IF wsSession[w] # None THEN wsSession[w] ELSE prov IN
         (HandleChat(w, prov, p) /\ inProgress(sid) /\ Has(chatStates, sid)) =>
             /\ chatStates'[sid].accumulatedContent =
                   chatStates[sid].accumulatedContent
             /\ chatStates'[sid].tools = chatStates[sid].tools
             /\ chatStates'[sid].todos = chatStates[sid].todos]_vars

\* C39: a send for a session whose last broadcast event is the complete of
\* its turn is accepted: it spawns a host process and appends no error.
C39_SendAfterCompleteAccepted ==
    [][\A w \in SrvConns, prov \in ProvIds, p \in ProcIds :
         LET sid == IF wsSession[w] # None THEN wsSession[w] ELSE prov IN
         (/\ HandleChat(w, prov, p)
          /\ appended[sid] # << >>
          /\ Last(appended[sid]).payload.action = "complete") =>
             /\ procs[p].pstate = "unused"
             /\ procs'[p].pstate = "reading"
             /\ appended'[sid] = appended[sid]]_vars

\* C36: when disconnect() returns no reconnect timer is pending, and the
\* status is 'disconnected' unless a socket is closing whose close event will
\* set it.
C36_DisconnectSettles ==
    [][Disconnect =>
         /\ Pending(timers') = {}
         /\ \/ status' = "disconnected"
            \/ \E k \in SockIds : sockets'[k].readyState = "closing"]_vars

\* the events of the text that is left, were it read in one piece: every
\* complete line, then the rest
OneRead(text, tools) ==
    LET parts == split(text)
        o == classifyLines(Out(tools, << >>), SubSeq(parts, 1, Len(parts) - 1))
    IN o.out \o parseLine(jsonLine(Last(parts)), o.tools).out
\* the events the call will have emitted when the stream is done, if the rest
\* of the text comes in one read
Outcome(state, out, buffer, rest, tools) ==
    IF state = "done" THEN out
    ELSE out \o OneRead(buffer \o rest, tools)

\* C37: with the abort flag not set, the events the classifier emits for a
\* text do not depend on how the text is split into reads: whatever part of
\* the text a read returns, the events emitted by the end of the stream are
\* those of reading the text in one piece.
C37_ChunkingIndependent ==
    [][Outcome(parserState', emitted', streamBuffer', unread', activeTools') =
       Outcome(parserState, emitted, streamBuffer, unread, activeTools)]_vars

\* a tool start and a tool end were emitted for a text read in three or more
\* pieces whose last record has no line break after it
C37_Witness ==
    /\ parserState = "done"
    /\ nRecords >= 3
    /\ Len(emitted) = 2
    /\ trim(streamBuffer) = RecordText(User(<<ToolResult("t1")>>))

LiveSockets(socks) ==
    {k \in SockIds : socks[k].readyState \in {"connecting", "open"}}

\* C38: the client never has two WebSockets that are connecting or open, and
\* the close of a socket that is not the current one leaves wsRef.current
\* as it is.
C38_OneLiveSocket ==
    [][/\ Cardinality(LiveSockets(sockets')) <= 1
       /\ \A k \in SockIds, failed \in BOOLEAN :
             (SocketClose(k, failed) /\ wsRef # NoSocket /\ wsRef # k)
                => wsRef' = wsRef]_vars

\* the turn (1, 2, ...) the i-th event of the session belongs to
TurnOfEvent(i) ==
    1 + Cardinality({j \in 1..(i - 1) :
                        appended["s1"][j].payload.action = "complete"})
\* the ids of the tools that ended during the n-th turn
EndedIn(n) ==
    {appended["s1"][i].payload.tool.id : i \in
        {j \in 1..Len(appended["s1"]) :
            /\ appended["s1"][j].payload.action = "tool_end"
            /\ TurnOfEvent(j) = n}}
\* the assistant entries of the transcript, in order
Answers(c) == SelectSeq(c.messages, LAMBDA m : m.role = "assistant")

\* C35: the tools of the finalized assistant message of the n-th turn are
\* the tools that ended during the n-th turn; no tool of an earlier turn is
\* among them.
C35_FinalizedToolsOfTurn ==
    \A n \in 1..Len(Answers(client)) :
        LET m == Answers(client)[n] IN
        (~m.isStreaming /\ ~client.dirty) =>
            {m.tools[k].id : k \in 1..Len(m.tools)} = EndedIn(n)

\* the snapshot at the head of link k's way down tells of a turn that is over
TerminalSnapshot(k) ==
    /\ down[k] # << >>
    /\ Head(down[k]).type = "system"
    /\ Head(down[k]).payload.action = "snapshot"
    /\ Head(down[k]).payload.chatState.status \in {"complete", "error"}

\* C33: when a turn has ended while the client was disconnected, the client
\* that has reconnected, resubscribed and received the session's snapshot is
\* no longer streaming: handling a snapshot of a completed or failed turn
\* leaves the streaming flag false
C33_SnapshotClearsStreaming ==
    [][\A k \in Links :
          (TerminalSnapshot(k) /\ LinkClientReceive(k)) => ~client'.isStreamingRef]_vars

\* a connection of the client has ended, on the client's or the server's side
ConnectionLost ==
    \E k \in Links : \/ sockets[k].readyState \in {"closing", "closed"}
                     \/ connState[ConnOf(k)] = "closed"

\* C34: when the client started without a session id and the host process
\* has revealed the canonical id of the session, the client's sessionId
\* eventually equals that id, as long as its connection stays up
C34_ClientLearnsSessionId ==
    \A p \in ProcIds, sid \in SessionIds :
        (procs[p].inited /\ procs[p].resume = None /\ procs[p].detected = sid
           /\ ~ConnectionLost)
            ~> (client.sessionId = sid \/ ConnectionLost)
=============================================================================
